---- MODULE Spec2Model ----
(***************************************************************************)
(* Model of the metadata dump pipeline of datalad-metalad                  *)
(* (datalad_metalad/dump.py): Dump.__call__, dump_from_dataset_tree,       *)
(* dump_from_uuid_set, show_dataset_metadata and show_file_tree_metadata,  *)
(* executed as generators that a consumer resumes record by record or      *)
(* closes early, over a lazily mapped metadata store.                      *)
(***************************************************************************)
EXTENDS Integers, Sequences, FiniteSets, TLC

\* ------------------------------------------------------------------ bounds
NumVersions == 2      \* versions kept in the tree version list / version lists
MaxRuns == 2          \* extractor runs stored in one Metadata object
MaxInstances == 2     \* instances stored in one extractor run

\* --------------------------------------------------------------- constants
None == "None"
NonePath == <<"<None>">>          \* a MetadataPath-typed field that is None
RootPath == <<>>                  \* MetadataPath("")
VersionNames == <<"v1", "v2", "v3", "v4">>
UnknownVersion == "vX"
UnknownUUID == "UX"
UnknownRootId == "<unknown>"
default_mapper_family == "git"

Versions == {VersionNames[i] : i \in 1..NumVersions}
VersionSeq == [i \in 1..NumVersions |-> VersionNames[i]]

\* order in which the child nodes of a tree node are iterated
NameOrder == <<"a", "d", "b", "n", "sub">>

\* ---------------------------------------------------------------- helpers
RECURSIVE Concat(_)
Concat(ss) == IF ss = <<>> THEN <<>> ELSE Head(ss) \o Concat(Tail(ss))

Last(s) == s[Len(s)]

\* ------------------------------------------------------- stored metadata
\* MetadataInstance number k of extractor run number r
Instance(r, k) ==
    [time_stamp |-> 10 * r + k,
     author_name |-> "agent",
     author_email |-> "agent@example.com",
     configuration |-> [version |-> <<"version", r>>, parameter |-> <<"param", k>>],
     metadata_content |-> <<"content", r, k>>]

ExtractorName(r) == <<"extractor", r>>

\* Metadata.extractor_runs(): r runs of k instances each, in stored order
MetaOf(r, k) ==
    [i \in 1..r |-> [name |-> ExtractorName(i),
                     instances |-> [j \in 1..k |-> Instance(i, j)]]]

\* a first run without instances followed by a full one
MixedMeta ==
    <<[name |-> ExtractorName(1), instances |-> <<>>],
      [name |-> ExtractorName(2), instances |-> [j \in 1..MaxInstances |-> Instance(2, j)]]>>

\* the dataset_level_metadata field of a MetadataRootRecord:
\* present = FALSE is None; reads_none: read_in() gives None
DlmNone == [present |-> FALSE, reads_none |-> FALSE, runs |-> <<>>]
DlmReadsNone == [present |-> TRUE, reads_none |-> TRUE, runs |-> <<>>]
DlmOf(runs) == [present |-> TRUE, reads_none |-> FALSE, runs |-> runs]

DlmShapes ==
    {DlmNone, DlmReadsNone, DlmOf(MetaOf(MaxRuns, MaxInstances)), DlmOf(MixedMeta)}

\* the mtree of a file tree: path |-> kind of node
FileNodes ==
    (<<>> :> "MTreeNode") @@ (<<"a">> :> "Metadata") @@ (<<"d">> :> "MTreeNode")
    @@ (<<"d", "b">> :> "Metadata") @@ (<<"n">> :> None)

EmptyNodes == (<<>> :> "MTreeNode")

\* extractor runs of the Metadata object stored for a file
FileRuns(p) == IF p = <<"a">> THEN MetaOf(MaxRuns, 1) ELSE MetaOf(1, MaxInstances)

\* the file_tree field of a MetadataRootRecord: present = FALSE is None
FtNone == [present |-> FALSE, nodes |-> EmptyNodes]
FtEmpty == [present |-> TRUE, nodes |-> EmptyNodes]
FtFull == [present |-> TRUE, nodes |-> FileNodes]
FtShapes == {FtNone, FtEmpty, FtFull}

OkShape == [dataset_level_metadata |-> DlmOf(MetaOf(1, 1)), file_tree |-> FtFull]

\* contents of a MetadataRootRecord: every kind of dataset-level metadata with
\* a full file tree, and every kind of file tree
MRRShapes ==
    [dataset_level_metadata : DlmShapes, file_tree : {FtFull}]
    \cup [dataset_level_metadata : {DlmOf(MetaOf(MaxRuns, MaxInstances))},
          file_tree : FtShapes]
    \cup {[dataset_level_metadata |-> DlmNone, file_tree |-> FtNone]}

\* dataset paths that can carry a root record in a dataset tree
SubPath == <<"sub">>
APath == <<"a">>
ABPath == <<"a", "b">>
DatasetPaths == {RootPath, SubPath, APath, ABPath}
Layouts == {{RootPath}, {RootPath, SubPath}, {SubPath}}

\* a dataset tree with a dataset below one of two sibling datasets
DeepLayout == {APath, ABPath, SubPath}

dataset_identifier(d) ==
    IF d = RootPath THEN "U1"
    ELSE IF d = SubPath THEN "U2"
    ELSE IF d = APath THEN "U3"
    ELSE "U4"

\* the mtree of a dataset tree holding root records at the paths of layout
DatasetNodes(layout) ==
    [p \in layout \cup {RootPath} |->
        IF p \in layout THEN "Item" ELSE "MTreeNode"]

SubVersionNames == <<"s1", "s2", "s3", "s4">>

\* MetadataRootRecord.dataset_version of the dataset at path d in tree version v
dataset_version(v, d) ==
    IF d = RootPath THEN v
    ELSE SubVersionNames[CHOOSE i \in 1..NumVersions : VersionNames[i] = v]

\* ------------------------------------------------------- lazy objects
Obj(kind, v, d, p) == [kind |-> kind, version |-> v, dataset |-> d, path |-> p]
MetadataFiles == {p \in DOMAIN FileNodes : FileNodes[p] = "Metadata"}
Kinds == {"mrr", "dlm", "ft", "metadata"}

Objects ==
    {Obj(k, v, d, RootPath) : k \in {"mrr", "dlm", "ft"}, v \in Versions, d \in DatasetPaths}
    \cup {Obj("metadata", v, d, p) : v \in Versions, d \in DatasetPaths, p \in MetadataFiles}

\* ------------------------------------------------------- tree search
\* child paths of node p, in iteration order
ChildSeq(nodes, p) ==
    LET names == SelectSeq(NameOrder, LAMBDA n : Append(p, n) \in DOMAIN nodes)
    IN  [i \in 1..Len(names) |-> Append(p, names[i])]

IsItem(nodes, p) == nodes[p] = "Item"

Matches(name, segment) == segment = "*" \/ segment = name

\* MTreeSearch.search_pattern: depth first, path accumulating; item is TRUE
\* when an item_indicator is given ("Item" nodes carry that child)
RECURSIVE search_matches(_, _, _, _, _)
search_matches(nodes, p, pattern, rec, item) ==
    LET ch == ChildSeq(nodes, p)
    IN  IF pattern = <<>>
        THEN (IF item => IsItem(nodes, p)
              THEN <<[path |-> p, node |-> nodes[p], remaining |-> <<>>]>>
              ELSE <<>>)
             \o (IF rec
                 THEN Concat([i \in 1..Len(ch) |->
                                search_matches(nodes, ch[i], <<>>, rec, item)])
                 ELSE <<>>)
        ELSE (IF item /\ IsItem(nodes, p)
              THEN <<[path |-> p, node |-> nodes[p], remaining |-> pattern]>>
              ELSE <<>>)
             \o Concat([i \in 1..Len(ch) |->
                          IF Matches(Last(ch[i]), Head(pattern))
                          THEN search_matches(nodes, ch[i], Tail(pattern), rec, item)
                          ELSE <<>>])

search_pattern(nodes, pattern, rec, item) ==
    search_matches(nodes, RootPath, pattern, rec, item)

\* ------------------------------------------------------------ state
VARIABLES
    tree_version_list,  \* top-level entry point: [present, versions]
    uuid_set,           \* top-level entry point: [present, uuids]
    layout,             \* dataset paths carrying a root record, in every version
    shapes,             \* dataset path |-> content of its MetadataRootRecord
    path,               \* the location given to Dump.__call__, as parsed
    recursive,          \* the recursive argument
    purge_cascades,     \* purge() of an object also releases its nested objects
    mem,                \* lazy objects: [mapped, events]
    log,                \* messages given to lgr
    records,            \* result records received by the consumer
    pc,                 \* position of the dump generator
    exc,                \* exception raised to the consumer
    parsed,             \* MetadataURLParser(path).parse() was called
    frame               \* local variables of the running generators

vars == <<tree_version_list, uuid_set, layout, shapes, path, recursive,
          purge_cascades, mem, log, records, pc, exc, parsed, frame>>

inputs == <<tree_version_list, uuid_set, layout, shapes, path, recursive,
            purge_cascades>>

\* ------------------------------------------------- load and purge
\* the root record an object belongs to
ParentOf(o) == Obj("mrr", o.version, o.dataset, RootPath)

\* objects released together with o when purge_impl releases nested content
Nested(o) ==
    IF ~purge_cascades THEN {}
    ELSE IF o.kind = "mrr"
         THEN {c \in Objects : c.version = o.version /\ c.dataset = o.dataset /\ c # o}
    ELSE IF o.kind = "ft"
         THEN {c \in Objects : c.version = o.version /\ c.dataset = o.dataset
                               /\ c.kind = "metadata"}
    ELSE {}

Event(m, op, o) ==
    [op |-> op, obj |-> o, ret |-> ~m.mapped[o], parent_mapped |-> m.mapped[ParentOf(o)]]

\* MappableObject.ensure_mapped(): loads the object if it is not mapped; the
\* event records whether this call did the load (the value it returns)
ensure_mapped(m, o) ==
    [mapped |-> [m.mapped EXCEPT ![o] = TRUE],
     events |-> Append(m.events, Event(m, "ensure_mapped", o))]

EnsureResult(m, o) == ~m.mapped[o]

\* MappableObject.purge(): releases the content of the object
purge(m, o) ==
    [mapped |-> [c \in Objects |-> IF c = o \/ c \in Nested(o) THEN FALSE ELSE m.mapped[c]],
     events |-> Append(m.events, Event(m, "purge", o))]

\* MappableObject.read_in(): loads the object, no bookkeeping for the caller
read_in(m, o) ==
    [mapped |-> [m.mapped EXCEPT ![o] = TRUE],
     events |-> Append(m.events, Event(m, "read_in", o))]

\* variant: the flag returned by ensure_mapped() is not consulted
PurgeAlways(flag, m, o) == purge(m, o)

PurgeIf(flag, m, o) == IF flag THEN purge(m, o) ELSE m

\* --------------------------------------------------------- the store
MRR(v, d) == Obj("mrr", v, d, RootPath)
DLM(v, d) == Obj("dlm", v, d, RootPath)
FT(v, d) == Obj("ft", v, d, RootPath)
MD(v, d, p) == Obj("metadata", v, d, p)

UUIDs == {dataset_identifier(d) : d \in layout}
dataset_of(uuid) == CHOOSE d \in DatasetPaths : dataset_identifier(d) = uuid

\* VersionList.versions() of the dataset at path d
version_list_versions(d) == [i \in 1..NumVersions |-> dataset_version(VersionNames[i], d)]

\* tree version holding the element of version dv in the version list of d
tree_version_of(dv, d) ==
    CHOOSE v \in Versions : dataset_version(v, d) = dv

InSeq(x, s) == \E i \in 1..Len(s) : s[i] = x

\* ----------------------------------------------------------- inputs
TreeURLs ==
    [kind : {"tree"},
     dataset_path : {NonePath, RootPath, <<"*">>, <<"nope">>},
     uuid : {None},
     version : {None, VersionNames[1], UnknownVersion},
     local_path : {RootPath, <<"*">>, <<"nope">>}]

UUIDURLs ==
    [kind : {"uuid"},
     dataset_path : {NonePath},
     uuid : {"U1", "U2", UnknownUUID},
     version : {None, VersionNames[1], UnknownVersion},
     local_path : {RootPath, <<"*">>, <<"nope">>}]

PreMapped == {{}, {"mrr"}, Kinds}

InitFrame ==
    [caller |-> None,
     metadata_url |-> [kind |-> None, dataset_path |-> NonePath, uuid |-> None,
                       version |-> None, local_path |-> RootPath],
     requested_versions |-> <<>>, vi |-> 1, version |-> None,
     has_root_mrr |-> FALSE, purge_root_mrr |-> FALSE,
     root_dataset_version |-> None, root_dataset_identifier |-> None,
     results |-> <<>>, ii |-> 1, result_count |-> 0,
     dataset_path |-> RootPath, mrr |-> MRR(VersionNames[1], RootPath),
     purge_metadata_root_record |-> FALSE,
     runs |-> <<>>, ri |-> 1, ni |-> 1,
     purge_mrr |-> FALSE, purge_dataset_level_metadata |-> FALSE,
     purge_file_tree |-> FALSE,
     file_results |-> <<>>, fi |-> 1, file_result_count |-> 0,
     purge_metadata |-> FALSE]

Init ==
    /\ \E tp, up \in BOOLEAN :
         /\ tree_version_list = [present |-> tp, versions |-> VersionSeq]
         /\ uuid_set = [present |-> up]
         /\ IF tp /\ up
            THEN /\ layout \in Layouts
                 /\ \E sh \in MRRShapes :
                      shapes = [d \in DatasetPaths |->
                                  IF d = SubPath /\ layout = {RootPath, SubPath}
                                  THEN OkShape ELSE sh]
                 /\ path \in TreeURLs \cup UUIDURLs
                 /\ recursive \in BOOLEAN
                 /\ purge_cascades \in BOOLEAN
                 /\ \E pm \in PreMapped :
                      /\ purge_cascades => pm # Kinds
                      /\ mem = [mapped |-> [o \in Objects |-> o.kind \in pm],
                                events |-> <<>>]
            ELSE /\ layout = {RootPath}
                 /\ shapes = [d \in DatasetPaths |-> OkShape]
                 /\ path \in {u \in TreeURLs \cup UUIDURLs :
                                u.version = None /\ u.local_path = RootPath}
                 /\ recursive = FALSE
                 /\ purge_cascades = FALSE
                 /\ mem = [mapped |-> [o \in Objects |-> FALSE], events |-> <<>>]
    /\ log = <<>>
    /\ records = <<>>
    /\ pc = "call"
    /\ exc = None
    /\ parsed = FALSE
    /\ frame = InitFrame

\* ---------------------------------------------------- result records
Logged(level, what, about) == Append(log, [level |-> level, what |-> what, about |-> about])

_create_result_record(mapper, metadata_record, element_path, report_type) ==
    [status |-> "ok",
     action |-> "meta_dump",
     backend |-> mapper,
     metadata_source |-> "store",
     type |-> report_type,
     metadata |-> metadata_record,
     path |-> element_path]

\* variant: the annotation relative to the root dataset is always reported
_get_common_properties_rooted(root_dataset_identifier, root_dataset_version, metadata_root_record, dataset_path) ==
    [root_dataset_id |-> root_dataset_identifier,
     root_dataset_version |-> root_dataset_version,
     dataset_path |-> dataset_path,
     dataset_id |-> dataset_identifier(metadata_root_record.dataset),
     dataset_version |-> dataset_version(metadata_root_record.version,
                                         metadata_root_record.dataset)]

\* variant: without a root record in the tree version no dataset id is reported
_get_common_properties_unrooted(root_dataset_identifier, root_dataset_version, metadata_root_record, dataset_path) ==
    LET root_info ==
            IF dataset_path # RootPath
            THEN [root_dataset_id |-> root_dataset_identifier,
                  root_dataset_version |-> root_dataset_version,
                  dataset_path |-> dataset_path]
            ELSE [k \in {} |-> None]
    IN  root_info @@
        [dataset_id |-> IF root_dataset_identifier = UnknownRootId THEN ""
                        ELSE dataset_identifier(metadata_root_record.dataset),
         dataset_version |-> dataset_version(metadata_root_record.version,
                                             metadata_root_record.dataset)]

_get_common_properties(root_dataset_identifier, root_dataset_version, metadata_root_record, dataset_path) ==
    LET root_info ==
            IF dataset_path # RootPath
            THEN [root_dataset_id |-> root_dataset_identifier,
                  root_dataset_version |-> root_dataset_version,
                  dataset_path |-> dataset_path]
            ELSE [k \in {} |-> None]
    IN  root_info @@
        [dataset_id |-> dataset_identifier(metadata_root_record.dataset),
         dataset_version |-> dataset_version(metadata_root_record.version,
                                             metadata_root_record.dataset)]

\* variant: the extractor version is taken from the wrong configuration field
_get_instance_properties_swapped(extractor_name, instance) ==
    [extraction_time |-> instance.time_stamp,
     agent_name |-> instance.author_name,
     agent_email |-> instance.author_email,
     extractor_name |-> extractor_name,
     extractor_version |-> instance.configuration.parameter,
     extraction_parameter |-> instance.configuration.parameter,
     extracted_metadata |-> instance.metadata_content]

_get_instance_properties(extractor_name, instance) ==
    [extraction_time |-> instance.time_stamp,
     agent_name |-> instance.author_name,
     agent_email |-> instance.author_email,
     extractor_name |-> extractor_name,
     extractor_version |-> instance.configuration.version,
     extraction_parameter |-> instance.configuration.parameter,
     extracted_metadata |-> instance.metadata_content]

\* ------------------------------------------------------ Dump.__call__
\* variant: only a store without any entry point is rejected
StoreMissingBoth == ~tree_version_list.present /\ ~uuid_set.present

\* dump.py 521: tree_version_list is None or uuid_set is None
StoreMissing == ~tree_version_list.present \/ ~uuid_set.present

\* dump.py 515-524: a missing entry point raises NoMetadataStoreFound
DumpNoStore ==
    /\ pc = "call"
    /\ StoreMissing
    /\ exc' = "NoMetadataStoreFound"
    /\ pc' = "raised"
    /\ UNCHANGED <<inputs, mem, log, records, parsed, frame>>

\* dump.py 526-543: parse the location and enter the matching generator
DumpCall ==
    /\ pc = "call"
    /\ ~StoreMissing
    /\ parsed' = TRUE
    /\ frame' = [frame EXCEPT !.metadata_url = path, !.caller = path.kind]
    /\ pc' = IF path.kind = "tree" THEN "tree" ELSE "uuid"
    /\ UNCHANGED <<inputs, mem, log, records, exc>>

\* ------------------------------------------- dump_from_dataset_tree
\* dump.py 287-294: normalise the location, determine the requested versions
TreeStart ==
    /\ pc = "tree"
    /\ LET url == IF frame.metadata_url.dataset_path = NonePath
                  THEN [frame.metadata_url EXCEPT !.dataset_path = RootPath,
                                                  !.local_path = RootPath,
                                                  !.version = None]
                  ELSE frame.metadata_url
       IN  frame' = [frame EXCEPT
                        !.metadata_url = url,
                        !.requested_versions =
                            IF url.version # None THEN <<url.version>>
                            ELSE tree_version_list.versions,
                        !.vi = 1]
    /\ pc' = "tree_version"
    /\ UNCHANGED <<inputs, mem, log, records, exc, parsed>>

\* dump.py 296: the loop over the requested versions is exhausted
TreeDone ==
    /\ pc = "tree_version"
    /\ frame.vi > Len(frame.requested_versions)
    /\ pc' = "done"
    /\ UNCHANGED <<inputs, mem, log, records, exc, parsed, frame>>

\* dump.py 298-307: get_dataset_tree raises KeyError
TreeVersionMissing ==
    /\ pc = "tree_version"
    /\ frame.vi <= Len(frame.requested_versions)
    /\ LET version == frame.requested_versions[frame.vi]
       IN  /\ ~InSeq(version, tree_version_list.versions)
           /\ log' = Logged("error", "could not locate metadata for version", version)
    /\ frame' = [frame EXCEPT !.vi = @ + 1]
    /\ UNCHANGED <<inputs, mem, records, pc, exc, parsed>>

\* dump.py 298-330: fetch the dataset tree, map the root record, start the search
TreeVersionFetch ==
    /\ pc = "tree_version"
    /\ frame.vi <= Len(frame.requested_versions)
    /\ LET version == frame.requested_versions[frame.vi]
           has_root == RootPath \in layout
           root_mrr == MRR(version, RootPath)
       IN  /\ InSeq(version, tree_version_list.versions)
           /\ IF ~has_root
              THEN /\ log' = Logged("debug", "no root dataset record found", version)
                   /\ mem' = mem
              ELSE /\ log' = log
                   /\ mem' = ensure_mapped(mem, root_mrr)
           /\ frame' = [frame EXCEPT
                 !.version = version,
                 !.has_root_mrr = has_root,
                 !.purge_root_mrr = IF has_root THEN EnsureResult(mem, root_mrr) ELSE FALSE,
                 !.root_dataset_version =
                     IF has_root THEN dataset_version(version, RootPath) ELSE version,
                 !.root_dataset_identifier =
                     IF has_root THEN dataset_identifier(RootPath) ELSE UnknownRootId,
                 !.results = search_pattern(DatasetNodes(layout),
                                            frame.metadata_url.dataset_path,
                                            recursive, TRUE),
                 !.ii = 1,
                 !.result_count = 0]
    /\ pc' = "tree_item"
    /\ UNCHANGED <<inputs, records, exc, parsed>>

\* variant: the matched item goes to show_file_tree_metadata directly
TreeItemFilesOnly ==
    /\ pc = "tree_item"
    /\ frame.ii <= Len(frame.results)
    /\ frame' = [frame EXCEPT
          !.result_count = @ + 1,
          !.dataset_path = frame.results[frame.ii].path,
          !.mrr = MRR(frame.version, frame.results[frame.ii].path)]
    /\ pc' = "sftm"
    /\ UNCHANGED <<inputs, mem, log, records, exc, parsed>>

\* dump.py 326-342: next matched item, enter show_dataset_metadata
TreeItem ==
    /\ pc = "tree_item"
    /\ frame.ii <= Len(frame.results)
    /\ frame' = [frame EXCEPT
          !.result_count = @ + 1,
          !.dataset_path = frame.results[frame.ii].path,
          !.mrr = MRR(frame.version, frame.results[frame.ii].path)]
    /\ pc' = "sdm"
    /\ UNCHANGED <<inputs, mem, log, records, exc, parsed>>

\* dump.py 354-362: the search is exhausted; log if nothing matched, purge the
\* root record if this iteration mapped it, go to the next version
TreeVersionEnd ==
    /\ pc = "tree_item"
    /\ frame.ii > Len(frame.results)
    /\ log' = IF frame.result_count = 0
              THEN Logged("error", "does not match any dataset", frame.version)
              ELSE log
    /\ mem' = PurgeIf(frame.purge_root_mrr, mem, MRR(frame.version, RootPath))
    /\ frame' = [frame EXCEPT !.vi = @ + 1]
    /\ pc' = "tree_version"
    /\ UNCHANGED <<inputs, records, exc, parsed>>

\* ----------------------------------------------- dump_from_uuid_set
\* variant: the KeyError of get_version_list is not caught
UuidUnknownRaises ==
    /\ pc = "uuid"
    /\ frame.metadata_url.uuid \notin UUIDs
    /\ exc' = "KeyError"
    /\ pc' = "raised"
    /\ UNCHANGED <<inputs, mem, log, records, parsed, frame>>

\* dump.py 373-379: get_version_list raises KeyError
UuidUnknown ==
    /\ pc = "uuid"
    /\ frame.metadata_url.uuid \notin UUIDs
    /\ log' = Logged("error", "could not locate metadata for dataset with UUID",
                     frame.metadata_url.uuid)
    /\ pc' = "done"
    /\ UNCHANGED <<inputs, mem, records, exc, parsed, frame>>

\* dump.py 373-384: the version list is found, determine the requested versions
UuidStart ==
    /\ pc = "uuid"
    /\ frame.metadata_url.uuid \in UUIDs
    /\ frame' = [frame EXCEPT
          !.requested_versions =
              IF frame.metadata_url.version # None
              THEN <<frame.metadata_url.version>>
              ELSE version_list_versions(dataset_of(frame.metadata_url.uuid)),
          !.vi = 1]
    /\ pc' = "uuid_version"
    /\ UNCHANGED <<inputs, mem, log, records, exc, parsed>>

\* dump.py 386, 419: the loop over the requested versions is exhausted
UuidDone ==
    /\ pc = "uuid_version"
    /\ frame.vi > Len(frame.requested_versions)
    /\ pc' = "done"
    /\ UNCHANGED <<inputs, mem, log, records, exc, parsed, frame>>

\* dump.py 387-395: get_versioned_element raises KeyError
UuidVersionMissing ==
    /\ pc = "uuid_version"
    /\ frame.vi <= Len(frame.requested_versions)
    /\ LET dataset_version_ == frame.requested_versions[frame.vi]
           d == dataset_of(frame.metadata_url.uuid)
       IN  /\ ~InSeq(dataset_version_, version_list_versions(d))
           /\ log' = Logged("error", "could not locate metadata for version",
                            dataset_version_)
    /\ frame' = [frame EXCEPT !.vi = @ + 1]
    /\ UNCHANGED <<inputs, mem, records, pc, exc, parsed>>

\* dump.py 387-406: the versioned element is found, enter show_dataset_metadata
UuidVersionFetch ==
    /\ pc = "uuid_version"
    /\ frame.vi <= Len(frame.requested_versions)
    /\ LET dataset_version_ == frame.requested_versions[frame.vi]
           d == dataset_of(frame.metadata_url.uuid)
       IN  /\ InSeq(dataset_version_, version_list_versions(d))
           /\ frame' = [frame EXCEPT
                 !.version = dataset_version_,
                 !.root_dataset_identifier = frame.metadata_url.uuid,
                 !.root_dataset_version = dataset_version_,
                 !.dataset_path = d,
                 !.mrr = MRR(tree_version_of(dataset_version_, d), d)]
    /\ pc' = "sdm"
    /\ UNCHANGED <<inputs, mem, log, records, exc, parsed>>

\* ---------------------------------------------- show_dataset_metadata
ShapeOf(mrr) == shapes[mrr.dataset]
DlmOfMrr(mrr) == DLM(mrr.version, mrr.dataset)
FtOfMrr(mrr) == FT(mrr.version, mrr.dataset)

\* dump.py 143-145: the dataset_level_metadata field is None, the attribute
\* access None.read_in raises AttributeError
SdmAttributeError ==
    /\ pc = "sdm"
    /\ ~ShapeOf(frame.mrr).dataset_level_metadata.present
    /\ mem' = ensure_mapped(mem, frame.mrr)
    /\ frame' = [frame EXCEPT !.purge_metadata_root_record = EnsureResult(mem, frame.mrr)]
    /\ exc' = "AttributeError"
    /\ pc' = "raised"
    /\ UNCHANGED <<inputs, log, records, parsed>>

\* dump.py 143-153: read_in() gives None: warn, purge, return
SdmNoMetadata ==
    /\ pc = "sdm"
    /\ ShapeOf(frame.mrr).dataset_level_metadata.present
    /\ ShapeOf(frame.mrr).dataset_level_metadata.reads_none
    /\ LET flag == EnsureResult(mem, frame.mrr)
           m1 == ensure_mapped(mem, frame.mrr)
           m2 == read_in(m1, DlmOfMrr(frame.mrr))
       IN  /\ mem' = PurgeIf(flag, m2, frame.mrr)
           /\ frame' = [frame EXCEPT !.purge_metadata_root_record = flag]
    /\ log' = Logged("warning", "no dataset level metadata", frame.mrr)
    /\ pc' = "sftm"
    /\ UNCHANGED <<inputs, records, exc, parsed>>

\* dump.py 143-163: map the root record, read the dataset-level metadata in,
\* start the loop over its extractor runs
SdmStart ==
    /\ pc = "sdm"
    /\ ShapeOf(frame.mrr).dataset_level_metadata.present
    /\ ~ShapeOf(frame.mrr).dataset_level_metadata.reads_none
    /\ mem' = read_in(ensure_mapped(mem, frame.mrr), DlmOfMrr(frame.mrr))
    /\ frame' = [frame EXCEPT
          !.purge_metadata_root_record = EnsureResult(mem, frame.mrr),
          !.runs = ShapeOf(frame.mrr).dataset_level_metadata.runs,
          !.ri = 1,
          !.ni = 1]
    /\ pc' = "sdm_loop"
    /\ UNCHANGED <<inputs, log, records, exc, parsed>>

\* dump.py 163-164: the instances of one extractor are exhausted
SdmNextRun ==
    /\ pc = "sdm_loop"
    /\ frame.ri <= Len(frame.runs)
    /\ frame.ni > Len(frame.runs[frame.ri].instances)
    /\ frame' = [frame EXCEPT !.ri = @ + 1, !.ni = 1]
    /\ UNCHANGED <<inputs, mem, log, records, pc, exc, parsed>>

\* dump.py 164-179: yield the record of one instance
SdmYield ==
    /\ pc = "sdm_loop"
    /\ frame.ri <= Len(frame.runs)
    /\ frame.ni <= Len(frame.runs[frame.ri].instances)
    /\ LET common_properties ==
               _get_common_properties(frame.root_dataset_identifier,
                                      frame.root_dataset_version,
                                      frame.mrr, frame.dataset_path)
           instance_properties ==
               _get_instance_properties(frame.runs[frame.ri].name,
                                        frame.runs[frame.ri].instances[frame.ni])
       IN  records' = Append(records,
               _create_result_record(
                   default_mapper_family,
                   [type |-> "dataset"] @@ common_properties @@ instance_properties,
                   frame.dataset_path,
                   "dataset"))
    /\ pc' = "sdm_yield"
    /\ UNCHANGED <<inputs, mem, log, exc, parsed, frame>>

\* dump.py 181-182: the runs are exhausted, purge the root record if mapped here
SdmFinish ==
    /\ pc = "sdm_loop"
    /\ frame.ri > Len(frame.runs)
    /\ mem' = PurgeIf(frame.purge_metadata_root_record, mem, frame.mrr)
    /\ pc' = "sftm"
    /\ UNCHANGED <<inputs, log, records, exc, parsed, frame>>

\* -------------------------------------------- show_file_tree_metadata
\* not file_tree or not file_tree.mtree.child_nodes
FileTreeEmpty(ft) == ~ft.present \/ ChildSeq(ft.nodes, RootPath) = <<>>

\* dump.py 195-208: the ensure_mapped() calls on root record, dataset-level
\* metadata and file tree, with the flags they return
SftmMapped(m, mrr) ==
    LET sh == ShapeOf(mrr)
        m1 == ensure_mapped(m, mrr)
        m2 == IF sh.dataset_level_metadata.present
              THEN ensure_mapped(m1, DlmOfMrr(mrr)) ELSE m1
        m3 == IF sh.file_tree.present
              THEN ensure_mapped(m2, FtOfMrr(mrr)) ELSE m2
    IN  [mem |-> m3,
         purge_mrr |-> EnsureResult(m, mrr),
         purge_dataset_level_metadata |->
             sh.dataset_level_metadata.present /\ EnsureResult(m1, DlmOfMrr(mrr)),
         purge_file_tree |->
             sh.file_tree.present /\ EnsureResult(m2, FtOfMrr(mrr))]

\* variant: the file tree is not released
SftmPurgedNoFileTree(m, mrr, purge_file_tree, purge_dataset_level_metadata, purge_mrr) ==
    PurgeIf(purge_mrr,
            PurgeIf(purge_dataset_level_metadata, m, DlmOfMrr(mrr)),
            mrr)

\* variant: the root record is released first
SftmPurgedParentFirst(m, mrr, purge_file_tree, purge_dataset_level_metadata, purge_mrr) ==
    PurgeIf(purge_file_tree,
            PurgeIf(purge_dataset_level_metadata,
                    PurgeIf(purge_mrr, m, mrr),
                    DlmOfMrr(mrr)),
            FtOfMrr(mrr))

\* dump.py 212-217 and 270-277: purge what this call mapped
SftmPurged(m, mrr, purge_file_tree, purge_dataset_level_metadata, purge_mrr) ==
    PurgeIf(purge_mrr,
            PurgeIf(purge_dataset_level_metadata,
                    PurgeIf(purge_file_tree, m, FtOfMrr(mrr)),
                    DlmOfMrr(mrr)),
            mrr)

\* variant: the early return releases nothing
SftmEmptyNoPurge ==
    /\ pc = "sftm"
    /\ FileTreeEmpty(ShapeOf(frame.mrr).file_tree)
    /\ LET r == SftmMapped(mem, frame.mrr)
       IN  /\ mem' = r.mem
           /\ frame' = [frame EXCEPT
                 !.purge_mrr = r.purge_mrr,
                 !.purge_dataset_level_metadata = r.purge_dataset_level_metadata,
                 !.purge_file_tree = r.purge_file_tree]
    /\ pc' = "return"
    /\ UNCHANGED <<inputs, log, records, exc, parsed>>

\* dump.py 195-218: the file tree is absent or empty: purge and return
SftmEmpty ==
    /\ pc = "sftm"
    /\ FileTreeEmpty(ShapeOf(frame.mrr).file_tree)
    /\ LET r == SftmMapped(mem, frame.mrr)
       IN  /\ mem' = SftmPurged(r.mem, frame.mrr, r.purge_file_tree,
                                r.purge_dataset_level_metadata, r.purge_mrr)
           /\ frame' = [frame EXCEPT
                 !.purge_mrr = r.purge_mrr,
                 !.purge_dataset_level_metadata = r.purge_dataset_level_metadata,
                 !.purge_file_tree = r.purge_file_tree]
    /\ pc' = "return"
    /\ UNCHANGED <<inputs, log, records, exc, parsed>>

\* dump.py 195-224: map the objects and start the search in the file tree
SftmSearch ==
    /\ pc = "sftm"
    /\ ~FileTreeEmpty(ShapeOf(frame.mrr).file_tree)
    /\ LET r == SftmMapped(mem, frame.mrr)
       IN  /\ mem' = r.mem
           /\ frame' = [frame EXCEPT
                 !.purge_mrr = r.purge_mrr,
                 !.purge_dataset_level_metadata = r.purge_dataset_level_metadata,
                 !.purge_file_tree = r.purge_file_tree,
                 !.file_results = search_pattern(ShapeOf(frame.mrr).file_tree.nodes,
                                                 frame.metadata_url.local_path,
                                                 recursive, FALSE),
                 !.fi = 1,
                 !.file_result_count = 0]
    /\ pc' = "sftm_loop"
    /\ UNCHANGED <<inputs, log, records, exc, parsed>>

\* variant: a skipped result is not counted
SftmSkipUncounted ==
    /\ pc = "sftm_loop"
    /\ frame.fi <= Len(frame.file_results)
    /\ frame.file_results[frame.fi].node \in {None, "MTreeNode"}
    /\ frame' = [frame EXCEPT !.fi = @ + 1]
    /\ UNCHANGED <<inputs, mem, log, records, pc, exc, parsed>>

\* dump.py 225-230: a result without metadata or a structural node is skipped
SftmSkip ==
    /\ pc = "sftm_loop"
    /\ frame.fi <= Len(frame.file_results)
    /\ frame.file_results[frame.fi].node \in {None, "MTreeNode"}
    /\ frame' = [frame EXCEPT !.file_result_count = @ + 1, !.fi = @ + 1]
    /\ UNCHANGED <<inputs, mem, log, records, pc, exc, parsed>>

MetadataOf(mrr, p) == MD(mrr.version, mrr.dataset, p)

\* dump.py 225-241: a Metadata result: map it, start the loop over its runs
SftmMatch ==
    /\ pc = "sftm_loop"
    /\ frame.fi <= Len(frame.file_results)
    /\ frame.file_results[frame.fi].node \notin {None, "MTreeNode"}
    /\ LET metadata == MetadataOf(frame.mrr, frame.file_results[frame.fi].path)
       IN  /\ mem' = ensure_mapped(mem, metadata)
           /\ frame' = [frame EXCEPT
                 !.file_result_count = @ + 1,
                 !.purge_metadata = EnsureResult(mem, metadata),
                 !.runs = FileRuns(frame.file_results[frame.fi].path),
                 !.ri = 1,
                 !.ni = 1]
    /\ pc' = "sftm_inst"
    /\ UNCHANGED <<inputs, log, records, exc, parsed>>

\* dump.py 241-242: the instances of one extractor are exhausted
SftmNextRun ==
    /\ pc = "sftm_inst"
    /\ frame.ri <= Len(frame.runs)
    /\ frame.ni > Len(frame.runs[frame.ri].instances)
    /\ frame' = [frame EXCEPT !.ri = @ + 1, !.ni = 1]
    /\ UNCHANGED <<inputs, mem, log, records, pc, exc, parsed>>

\* dump.py 242-258: yield the record of one instance of a file
SftmYield ==
    /\ pc = "sftm_inst"
    /\ frame.ri <= Len(frame.runs)
    /\ frame.ni <= Len(frame.runs[frame.ri].instances)
    /\ LET file_path == frame.file_results[frame.fi].path
           common_properties ==
               _get_common_properties(frame.root_dataset_identifier,
                                      frame.root_dataset_version,
                                      frame.mrr, frame.dataset_path)
           instance_properties ==
               _get_instance_properties(frame.runs[frame.ri].name,
                                        frame.runs[frame.ri].instances[frame.ni])
       IN  records' = Append(records,
               _create_result_record(
                   default_mapper_family,
                   [type |-> "file", path |-> file_path]
                       @@ common_properties @@ instance_properties,
                   frame.dataset_path \o file_path,
                   "dataset"))
    /\ pc' = "sftm_yield"
    /\ UNCHANGED <<inputs, mem, log, exc, parsed, frame>>

\* dump.py 260-261: the runs of the file are exhausted, purge its metadata
SftmPurgeMetadata ==
    /\ pc = "sftm_inst"
    /\ frame.ri > Len(frame.runs)
    /\ mem' = PurgeIf(frame.purge_metadata, mem,
                      MetadataOf(frame.mrr, frame.file_results[frame.fi].path))
    /\ frame' = [frame EXCEPT !.fi = @ + 1]
    /\ pc' = "sftm_loop"
    /\ UNCHANGED <<inputs, log, records, exc, parsed>>

\* dump.py 263-277: the search is exhausted: warn if it gave nothing, purge
SftmEnd ==
    /\ pc = "sftm_loop"
    /\ frame.fi > Len(frame.file_results)
    /\ log' = IF frame.file_result_count = 0
              THEN Logged("warning", "does not match any element in file-tree", frame.mrr)
              ELSE log
    /\ mem' = SftmPurged(mem, frame.mrr, frame.purge_file_tree,
                         frame.purge_dataset_level_metadata, frame.purge_mrr)
    /\ pc' = "return"
    /\ UNCHANGED <<inputs, records, exc, parsed, frame>>

\* dump.py 326 / 386: show_file_tree_metadata returned, the caller's loop goes on
SftmReturn ==
    /\ pc = "return"
    /\ IF frame.caller = "tree"
       THEN /\ frame' = [frame EXCEPT !.ii = @ + 1]
            /\ pc' = "tree_item"
       ELSE /\ frame' = [frame EXCEPT !.vi = @ + 1]
            /\ pc' = "uuid_version"
    /\ UNCHANGED <<inputs, mem, log, records, exc, parsed>>

\* ------------------------------------------------------- the consumer
Suspended == pc \in {"sdm_yield", "sftm_yield"}

\* next() on the generator suspended at a yield: the instance loop goes on
ConsumerNext ==
    /\ Suspended
    /\ frame' = [frame EXCEPT !.ni = @ + 1]
    /\ pc' = IF pc = "sdm_yield" THEN "sdm_loop" ELSE "sftm_inst"
    /\ UNCHANGED <<inputs, mem, log, records, exc, parsed>>

\* close() on the generator suspended at a yield: GeneratorExit is raised at
\* the yield; no statement of dump.py encloses a yield in try/finally or with
ConsumerClose ==
    /\ Suspended
    /\ pc' = "closed"
    /\ UNCHANGED <<inputs, mem, log, records, exc, parsed, frame>>

Next ==
    \/ DumpNoStore \/ DumpCall
    \/ TreeStart \/ TreeDone \/ TreeVersionMissing \/ TreeVersionFetch
    \/ TreeItem \/ TreeVersionEnd
    \/ UuidUnknown \/ UuidStart \/ UuidDone \/ UuidVersionMissing \/ UuidVersionFetch
    \/ SdmAttributeError \/ SdmNoMetadata \/ SdmStart
    \/ SdmNextRun \/ SdmYield \/ SdmFinish
    \/ SftmEmpty \/ SftmSearch \/ SftmSkip \/ SftmMatch
    \/ SftmNextRun \/ SftmYield \/ SftmPurgeMetadata \/ SftmEnd \/ SftmReturn
    \/ ConsumerNext \/ ConsumerClose

Spec == Init /\ [][Next]_vars

\* ------------------------------------------------------------ typing
TypeOK ==
    /\ pc \in {"call", "tree", "tree_version", "tree_item", "uuid", "uuid_version",
               "sdm", "sdm_loop", "sdm_yield", "sftm", "sftm_loop", "sftm_inst",
               "sftm_yield", "return", "done", "raised", "closed"}
    /\ exc \in {None, "NoMetadataStoreFound", "AttributeError", "KeyError"}
    /\ parsed \in BOOLEAN

\* ------------------------------------------------- load/purge accounting
EventsOf(op, o) == {i \in DOMAIN mem.events : mem.events[i].op = op /\ mem.events[i].obj = o}

\* ensure_mapped() calls on o that returned True
EnsuredTrue(o) == Cardinality({i \in EventsOf("ensure_mapped", o) : mem.events[i].ret})

\* purge() calls issued on o
Purges(o) == Cardinality(EventsOf("purge", o))

\* objects on which a load or purge call was issued; for every other object
\* both numbers are zero
Touched == {mem.events[i].obj : i \in DOMAIN mem.events}

EarlyTerminationPurges ==
    pc = "closed" => \A o \in Objects : Purges(o) = EnsuredTrue(o)

\* C3: stack discipline. Replaying the load and purge calls in the order in
\* which they were issued, every purge releases the object loaded last among
\* those still held.
RECURSIVE StackOK(_, _)
StackOK(evs, stack) ==
    IF evs = <<>> THEN TRUE
    ELSE LET e == Head(evs)
         IN  IF e.op = "ensure_mapped" /\ e.ret
             THEN StackOK(Tail(evs), Append(stack, e.obj))
             ELSE IF e.op = "purge"
             THEN /\ stack # <<>>
                  /\ Last(stack) = e.obj
                  /\ StackOK(Tail(evs), SubSeq(stack, 1, Len(stack) - 1))
             ELSE StackOK(Tail(evs), stack)

\* C3: objects are purged in the reverse order of their mapping, and file
\* metadata, file tree and dataset-level metadata are only ever purged while
\* their root record is mapped.
StackDiscipline ==
    /\ StackOK(mem.events, <<>>)
    /\ \A i \in DOMAIN mem.events :
          mem.events[i].op = "purge" /\ mem.events[i].obj.kind # "mrr"
             => mem.events[i].parent_mapped

\* show_file_tree_metadata returned after purging file metadata, file tree,
\* dataset-level metadata and root record, all mapped by itself
StackDisciplineWitness ==
    /\ pc = "return"
    /\ frame.purge_mrr /\ frame.purge_dataset_level_metadata /\ frame.purge_file_tree
    /\ \E o \in Objects : /\ o.kind = "metadata"
                          /\ ParentOf(o) = frame.mrr
                          /\ Purges(o) > 0
    /\ Purges(frame.mrr) > 1

\* C4: correct nesting. During one version iteration of dump_from_dataset_tree
\* the root record found at its start is mapped while the matched items are
\* processed, and no purge has been issued on it.
InVersionIteration ==
    /\ frame.caller = "tree"
    /\ pc \in {"tree_item", "sdm", "sdm_loop", "sdm_yield", "sftm", "sftm_loop",
               "sftm_inst", "sftm_yield", "return"}

RootStaysMapped ==
    InVersionIteration /\ frame.has_root_mrr =>
        /\ mem.mapped[MRR(frame.version, RootPath)]
        /\ Purges(MRR(frame.version, RootPath)) = 0

\* the matched item is the root dataset itself, mapped by this iteration, and
\* both show_dataset_metadata and show_file_tree_metadata have processed it
RootStaysMappedWitness ==
    /\ InVersionIteration
    /\ pc = "return"
    /\ frame.has_root_mrr /\ frame.purge_root_mrr
    /\ frame.mrr = MRR(frame.version, RootPath)
    /\ Len(records) > 0
    /\ mem.mapped[frame.mrr]

\* ------------------------------------------------ what a dump should log
LogCount(level, what, about) ==
    Cardinality({i \in DOMAIN log : log[i] = [level |-> level, what |-> what, about |-> about]})

\* the generator has ended, by exhaustion or by an exception of the traversal
Ended == pc \in {"done", "raised"} /\ parsed

\* requested versions that the version list holds
FoundVersions ==
    IF frame.caller = "tree"
    THEN {v \in Versions : InSeq(v, frame.requested_versions)}
    ELSE {v \in Versions :
            /\ frame.metadata_url.uuid \in UUIDs
            /\ InSeq(dataset_version(v, dataset_of(frame.metadata_url.uuid)),
                     frame.requested_versions)}

\* datasets matched by the dataset-path pattern in tree version v
MatchedIn(v) ==
    IF frame.caller = "tree"
    THEN LET res == search_pattern(DatasetNodes(layout), frame.metadata_url.dataset_path,
                                   recursive, TRUE)
         IN  {MRR(v, res[i].path) : i \in DOMAIN res}
    ELSE {MRR(v, dataset_of(frame.metadata_url.uuid))}

\* the file tree of mrr has no element matching the local-path pattern
FileUnmatched(mrr) ==
    \/ FileTreeEmpty(ShapeOf(mrr).file_tree)
    \/ search_pattern(ShapeOf(mrr).file_tree.nodes, frame.metadata_url.local_path,
                      recursive, FALSE) = <<>>

RecordsOf(mrr, type) ==
    SelectSeq(records,
              LAMBDA r : /\ r.metadata.type = type
                         /\ r.metadata.dataset_id = dataset_identifier(mrr.dataset)
                         /\ r.metadata.dataset_version =
                                dataset_version(mrr.version, mrr.dataset))

\* C5: a dataset without dataset-level metadata. When show_dataset_metadata
\* has dealt with a root record whose dataset_level_metadata is None or reads
\* in as None, nothing was raised, the last message is the warning about that
\* record, no record was emitted for it, the root record is released if the
\* call mapped it, and show_file_tree_metadata is entered for the same record.
NoDatasetMetadataWarns ==
    LET dlm == ShapeOf(frame.mrr).dataset_level_metadata
    IN  (pc \in {"sftm", "raised"} /\ parsed /\ (~dlm.present \/ dlm.reads_none)) =>
            /\ pc = "sftm"
            /\ exc = None
            /\ log # <<>>
            /\ Last(log) = [level |-> "warning", what |-> "no dataset level metadata",
                            about |-> frame.mrr]
            /\ RecordsOf(frame.mrr, "dataset") = <<>>
            /\ frame.purge_metadata_root_record => ~mem.mapped[frame.mrr]

\* C6: no-match non-crash. When the dump has ended nothing was raised; every
\* found version whose dataset tree has no dataset matching the dataset-path
\* pattern has exactly one error and no record; every matched dataset whose
\* file tree (also an empty or absent one) has no element matching the
\* local-path pattern has exactly one warning and no file record; matched
\* branches have no such message.
NoMatchSomewhere ==
    \E v \in FoundVersions :
        MatchedIn(v) = {} \/ \E m \in MatchedIn(v) : FileUnmatched(m)

NoMatchLogsOnce ==
    Ended /\ NoMatchSomewhere =>
        /\ exc = None
        /\ \A v \in FoundVersions :
              /\ frame.caller = "tree" =>
                    LogCount("error", "does not match any dataset", v)
                        = IF MatchedIn(v) = {} THEN 1 ELSE 0
              /\ \A m \in MatchedIn(v) :
                    /\ LogCount("warning", "does not match any element in file-tree", m)
                          = IF FileUnmatched(m) THEN 1 ELSE 0
                    /\ FileUnmatched(m) => RecordsOf(m, "file") = <<>>
        /\ (\A v \in FoundVersions : MatchedIn(v) = {}) => records = <<>>

\* C7: unknown UUID. A dump by a UUID that the UUID set does not hold ends
\* without a record, without an exception and without any load or purge, and
\* with exactly one message, an error.
UnknownUUIDCase ==
    tree_version_list.present /\ uuid_set.present /\ path.kind = "uuid" /\ path.uuid \notin UUIDs

UnknownUUIDLogsOnce ==
    UnknownUUIDCase =>
        /\ records = <<>>
        /\ exc = None
        /\ mem.events = <<>>
        /\ \/ pc \in {"call", "uuid"} /\ log = <<>>
           \/ /\ pc = "done"
              /\ Len(log) = 1
              /\ log[1].level = "error"
              /\ log[1].about = path.uuid

\* dump_from_uuid_set has returned for an unknown UUID
UnknownUUIDWitness ==
    UnknownUUIDCase /\ pc = "done" /\ Len(log) = 1

\* the traversal generator has determined its requested versions
Started ==
    /\ parsed
    /\ pc \notin {"call", "tree", "uuid"}
    /\ path.kind = "uuid" => path.uuid \in UUIDs

\* VersionList.versions() / TreeVersionList.versions() of the addressed list
ListedVersions ==
    IF path.kind = "tree" THEN tree_version_list.versions
    ELSE version_list_versions(dataset_of(path.uuid))

\* tree version that holds the dataset of a record
TreeVersionIndex(r) ==
    CHOOSE i \in 1..NumVersions :
        r.metadata.dataset_version \in {VersionNames[i], SubVersionNames[i]}

\* number of (extractor, instance) pairs stored in the dataset-level metadata
PairCount(runs) ==
    Cardinality({<<i, j>> \in (1..MaxRuns + 1) \X (1..MaxInstances + 1) :
                    i <= Len(runs) /\ j <= Len(runs[i].instances)})

\* C8: a lookup miss on a version is local. The requested versions are the
\* version the location names, or all versions of the list when it names
\* none; when the generator is exhausted every requested version missing from
\* the list has exactly one error and no record, every other requested version
\* has the dataset-level records of its matched datasets, and the records
\* follow the order of the requested versions.
VersionMissIsLocal ==
    Started =>
        /\ frame.requested_versions =
               IF path.version # None THEN <<path.version>> ELSE ListedVersions
        /\ pc = "done" =>
              /\ \A i \in DOMAIN frame.requested_versions :
                    ~InSeq(frame.requested_versions[i], ListedVersions) =>
                        /\ LogCount("error", "could not locate metadata for version",
                                    frame.requested_versions[i]) = 1
                        /\ \A k \in DOMAIN records :
                              records[k].metadata.dataset_version
                                  # frame.requested_versions[i]
              /\ \A v \in FoundVersions : \A m \in MatchedIn(v) :
                    LET dlm == ShapeOf(m).dataset_level_metadata
                    IN  Len(RecordsOf(m, "dataset")) = PairCount(dlm.runs)
              /\ \A k \in 1..Len(records) - 1 :
                    TreeVersionIndex(records[k]) <= TreeVersionIndex(records[k + 1])

\* C9: missing store. When the tree version list or the UUID set is missing,
\* the call raises NoMetadataStoreFound without having parsed the location,
\* emitted a record, logged, or loaded or purged an object; the exception is
\* raised in no other case.
NoStoreRaisesFirst ==
    /\ (~tree_version_list.present \/ ~uuid_set.present) =>
          /\ ~parsed
          /\ records = <<>>
          /\ log = <<>>
          /\ mem.events = <<>>
          /\ pc = "call" \/ (pc = "raised" /\ exc = "NoMetadataStoreFound")
    /\ exc = "NoMetadataStoreFound" =>
          (~tree_version_list.present \/ ~uuid_set.present)

\* the call raised although one of the two entry points exists
NoStoreWitness ==
    /\ pc = "raised"
    /\ exc = "NoMetadataStoreFound"
    /\ tree_version_list.present
    /\ ~uuid_set.present

\* C10: dataset-level records. The (extractor name, instance) pairs of the
\* stored extractor runs, in stored order
RECURSIVE FlattenRuns(_)
FlattenRuns(runs) ==
    IF runs = <<>> THEN <<>>
    ELSE [j \in 1..Len(Head(runs).instances) |->
             [name |-> Head(runs).name, instance |-> Head(runs).instances[j]]]
         \o FlattenRuns(Tail(runs))

CarriesInstance(r, pair) ==
    /\ r.status = "ok" /\ r.action = "meta_dump"
    /\ r.metadata.type = "dataset"
    /\ r.metadata.extractor_name = pair.name
    /\ r.metadata.extraction_time = pair.instance.time_stamp
    /\ r.metadata.agent_name = pair.instance.author_name
    /\ r.metadata.agent_email = pair.instance.author_email
    /\ r.metadata.extractor_version = pair.instance.configuration.version
    /\ r.metadata.extraction_parameter = pair.instance.configuration.parameter
    /\ r.metadata.extracted_metadata = pair.instance.metadata_content

\* C10: while show_dataset_metadata runs on a dataset with dataset-level
\* metadata, the records emitted for it are a prefix of the flattened
\* extractor runs, record by record; when it has returned they are all of it.
DatasetRecordsAreRuns ==
    LET dlm == ShapeOf(frame.mrr).dataset_level_metadata
        emitted == RecordsOf(frame.mrr, "dataset")
        pairs == FlattenRuns(dlm.runs)
    IN  (pc \in {"sdm_loop", "sdm_yield", "sftm"} /\ dlm.present /\ ~dlm.reads_none) =>
            /\ Len(emitted) <= Len(pairs)
            /\ \A i \in DOMAIN emitted : CarriesInstance(emitted[i], pairs[i])
            /\ pc = "sftm" => Len(emitted) = Len(pairs)

\* show_dataset_metadata returned after emitting records of several extractors
\* and of several instances of one extractor
DatasetRecordsWitness ==
    LET emitted == RecordsOf(frame.mrr, "dataset")
    IN  /\ pc = "sftm"
        /\ \E i, j \in DOMAIN emitted :
              emitted[i].metadata.extractor_name # emitted[j].metadata.extractor_name
        /\ \E i, j \in DOMAIN emitted :
              /\ i < j
              /\ emitted[i].metadata.extractor_name = emitted[j].metadata.extractor_name

\* ------------------------------------------------------- record tagging
\* the record the suspended generator has just yielded
Yielded == Last(records)

\* C11: record tagging. The record yielded for a file-tree match carries
\* type "file" in the result record and in its metadata, and its metadata path
\* is the matched path relative to the dataset; the record yielded for
\* dataset-level metadata carries type "dataset" in both places.
RecordsTagged ==
    /\ pc = "sftm_yield" =>
          /\ Yielded.type = "file"
          /\ Yielded.metadata.type = "file"
          /\ Yielded.metadata.path = frame.file_results[frame.fi].path
    /\ pc = "sdm_yield" =>
          /\ Yielded.type = "dataset"
          /\ Yielded.metadata.type = "dataset"

\* C12: record shape. Every record a dump traversal has emitted has status
\* "ok", action "meta_dump" and a non-empty metadata.dataset_id.
RecordShape ==
    \A i \in DOMAIN records :
        /\ records[i].status = "ok"
        /\ records[i].action = "meta_dump"
        /\ records[i].metadata.dataset_id # ""

\* dataset-level and file-level records of a dataset found in a tree version
\* that has no root record
RecordShapeWitness ==
    /\ frame.caller = "tree"
    /\ pc = "return"
    /\ ~frame.has_root_mrr
    /\ \E i, j \in DOMAIN records :
          /\ records[i].metadata.type = "dataset"
          /\ records[j].metadata.type = "file"
          /\ records[i].metadata.root_dataset_id = UnknownRootId

\* keys that annotate a record relative to the root dataset
RootKeys == {"root_dataset_id", "root_dataset_version", "dataset_path"}

\* C13: common properties. The metadata of a yielded record has the keys
\* root_dataset_id, root_dataset_version and dataset_path exactly when the
\* matched dataset is not at the root path, and always has dataset_id and
\* dataset_version of the matched dataset's own root record.
CommonKeys ==
    Suspended =>
        LET md == Yielded.metadata
        IN  /\ frame.mrr.dataset # RootPath => RootKeys \subseteq DOMAIN md
            /\ frame.mrr.dataset = RootPath => RootKeys \cap DOMAIN md = {}
            /\ md.dataset_id = dataset_identifier(frame.mrr.dataset)
            /\ md.dataset_version = dataset_version(frame.mrr.version, frame.mrr.dataset)

\* a file record of the sub-dataset is yielded after records of the root
\* dataset that carry no annotation
CommonKeysWitness ==
    /\ pc = "sftm_yield"
    /\ frame.mrr.dataset = SubPath
    /\ Yielded.metadata.dataset_path = SubPath
    /\ \E i \in DOMAIN records : "root_dataset_id" \notin DOMAIN records[i].metadata

\* ------------------------------------------------- location normalisation
\* dump_from_dataset_tree has normalised a location without dataset path
NoDatasetPathCase ==
    /\ frame.caller = "tree"
    /\ pc \notin {"call", "tree"}
    /\ path.dataset_path = NonePath

\* C14: a location without dataset path. dump_from_dataset_tree queries the
\* root dataset and keeps the version and the local path of the location: the
\* requested versions are the named version if there is one, and the file
\* trees are searched with the local path as given.
NormalisationKeepsRest ==
    NoDatasetPathCase =>
        /\ frame.metadata_url.dataset_path = RootPath
        /\ frame.metadata_url.version = path.version
        /\ frame.metadata_url.local_path = path.local_path
        /\ frame.requested_versions =
               IF path.version # None THEN <<path.version>>
               ELSE tree_version_list.versions

\* --------------------------------------------- show_file_tree_metadata
\* the operation of the last load or purge call issued on o, None without one
LastOp(o) ==
    LET idx == {i \in DOMAIN mem.events : mem.events[i].obj = o}
    IN  IF idx = {} THEN None
        ELSE mem.events[CHOOSE i \in idx : \A j \in idx : j <= i].op

\* show_file_tree_metadata has returned for a dataset whose file tree is
\* absent or has no child nodes
EmptyFileTreeCase ==
    pc = "return" /\ FileTreeEmpty(ShapeOf(frame.mrr).file_tree)

\* o was mapped by the call (its flag is set) and purged by it, or was not
\* mapped by the call and not purged by it
ReleasedIf(flag, o) ==
    IF flag THEN LastOp(o) = "purge" /\ ~mem.mapped[o]
    ELSE LastOp(o) # "purge"

\* C15: an absent or empty file tree. show_file_tree_metadata returns with no
\* trace of a search (no file record of the dataset, no file metadata loaded,
\* no no-match warning), having purged file tree, dataset-level metadata and
\* root record exactly where its own ensure_mapped() call returned True.
EmptyFileTreeReturns ==
    EmptyFileTreeCase =>
        /\ RecordsOf(frame.mrr, "file") = <<>>
        /\ \A o \in Objects :
              o.kind = "metadata" /\ ParentOf(o) = frame.mrr => LastOp(o) = None
        /\ LogCount("warning", "does not match any element in file-tree", frame.mrr) = 0
        /\ ReleasedIf(frame.purge_file_tree, FtOfMrr(frame.mrr))
        /\ ReleasedIf(frame.purge_dataset_level_metadata, DlmOfMrr(frame.mrr))
        /\ ReleasedIf(frame.purge_mrr, frame.mrr)

\* the call mapped and purged all three objects of a dataset with an empty
\* file tree
EmptyFileTreeWitness ==
    /\ EmptyFileTreeCase
    /\ ShapeOf(frame.mrr).file_tree.present
    /\ frame.purge_mrr /\ frame.purge_dataset_level_metadata /\ frame.purge_file_tree

\* show_file_tree_metadata has returned after searching the file tree
SearchedCase ==
    pc = "return" /\ ~FileTreeEmpty(ShapeOf(frame.mrr).file_tree)

\* the results of the search in the file tree of the dataset
FileResults ==
    search_pattern(ShapeOf(frame.mrr).file_tree.nodes, frame.metadata_url.local_path,
                   recursive, FALSE)

\* paths of the results without metadata or with a structural node
SkippedPaths ==
    {FileResults[i].path : i \in {j \in DOMAIN FileResults :
                                     FileResults[j].node \in {None, "MTreeNode"}}}

\* C16: skipped results count as matches. After a search in the file tree the
\* no-match warning was logged once if the search gave no result and not at
\* all otherwise, also when every result was skipped; a skipped result has no
\* record and no load or purge call.
SkippedStillCount ==
    SearchedCase =>
        /\ LogCount("warning", "does not match any element in file-tree", frame.mrr)
               = IF FileResults = <<>> THEN 1 ELSE 0
        /\ \A k \in DOMAIN RecordsOf(frame.mrr, "file") :
              RecordsOf(frame.mrr, "file")[k].metadata.path \notin SkippedPaths
        /\ \A i \in DOMAIN mem.events :
              (mem.events[i].obj.kind = "metadata" /\ ParentOf(mem.events[i].obj) = frame.mrr)
                 => mem.events[i].obj.path \notin SkippedPaths

\* the search gave results and all of them were skipped
SkippedStillCountWitness ==
    /\ SearchedCase
    /\ FileResults # <<>>
    /\ \A i \in DOMAIN FileResults : FileResults[i].path \in SkippedPaths
    /\ RecordsOf(frame.mrr, "file") = <<>>

\* ------------------------------------------------------ order of records
\* the dataset and version a record belongs to
KeyOf(r) == <<r.metadata.dataset_id, r.metadata.dataset_version>>

\* number of dataset-level records of the dataset of records[j] before it
DatasetRecordsBefore(j) ==
    Cardinality({i \in 1..(j - 1) : /\ KeyOf(records[i]) = KeyOf(records[j])
                                    /\ records[i].metadata.type = "dataset"})

\* C17: order of records. Whenever a record has been yielded, in the records
\* received so far every file-level record comes after all dataset-level
\* records of its dataset (as many as its dataset-level metadata holds
\* instances) and is followed by no dataset-level record of it, and the
\* records of one matched dataset are not interleaved with those of another.
RecordOrder ==
    Suspended =>
        \A j \in DOMAIN records :
            /\ records[j].metadata.type = "file" =>
                  /\ DatasetRecordsBefore(j) =
                        PairCount(shapes[dataset_of(records[j].metadata.dataset_id)]
                                      .dataset_level_metadata.runs)
                  /\ \A k \in DOMAIN records :
                        (k > j /\ KeyOf(records[k]) = KeyOf(records[j]))
                            => records[k].metadata.type = "file"
            /\ (j < Len(records) /\ KeyOf(records[j + 1]) # KeyOf(records[j])) =>
                  \A k \in DOMAIN records : k > j => KeyOf(records[k]) # KeyOf(records[j])

\* a dataset-level record of a second matched dataset is yielded after
\* dataset-level and file-level records of the first
RecordOrderWitness ==
    /\ pc = "sdm_yield"
    /\ \E i, j \in DOMAIN records :
          /\ i < j
          /\ records[i].metadata.type = "dataset"
          /\ records[j].metadata.type = "file"
          /\ KeyOf(records[i]) = KeyOf(records[j])
          /\ KeyOf(Yielded) # KeyOf(records[j])
          /\ TreeVersionIndex(Yielded) = TreeVersionIndex(records[j])

\* --------------------------------- a dump followed by its recursive dump
\* contents of the root record of the dataset below a matched dataset
DeepShapes ==
    {OkShape,
     [dataset_level_metadata |-> DlmNone, file_tree |-> FtFull],
     [dataset_level_metadata |-> DlmReadsNone, file_tree |-> FtEmpty]}

\* a store with the datasets a, a/b and sub; the first dump is not recursive
InitDeep ==
    /\ \E tp \in BOOLEAN :
          tree_version_list = [present |-> tp, versions |-> VersionSeq]
    /\ uuid_set = [present |-> TRUE]
    /\ layout = DeepLayout
    /\ \E sh \in DeepShapes :
          shapes = [d \in DatasetPaths |-> IF d = ABPath THEN sh ELSE OkShape]
    /\ path \in TreeURLs \cup UUIDURLs
    /\ recursive = FALSE
    /\ purge_cascades = FALSE
    /\ mem = [mapped |-> [o \in Objects |-> FALSE], events |-> <<>>]
    /\ log = <<>>
    /\ records = <<>>
    /\ pc = "call"
    /\ exc = None
    /\ parsed = FALSE
    /\ frame = InitFrame @@ [first |-> <<>>, rerun |-> FALSE]

\* the caller keeps the records of the ended dump and calls Dump.__call__
\* again on the same store with the same location and recursive=True
Rerun ==
    /\ pc \in {"done", "raised"}
    /\ parsed
    /\ ~frame.rerun
    /\ recursive' = TRUE
    /\ frame' = InitFrame @@ [first |-> records, rerun |-> TRUE]
    /\ records' = <<>>
    /\ pc' = "call"
    /\ exc' = None
    /\ parsed' = FALSE
    /\ UNCHANGED <<tree_version_list, uuid_set, layout, shapes, path, purge_cascades,
                   mem, log>>

NextDeep == Next \/ Rerun

SpecDeep == InitDeep /\ [][NextDeep]_vars

\* C18: recursive superset. When the recursive dump of a location has ended,
\* every record the non-recursive dump of the same location emitted is among
\* its records.
RecursiveDumpSuperset ==
    (frame.rerun /\ pc \in {"done", "raised"}) =>
        \A i \in DOMAIN frame.first : InSeq(frame.first[i], records)

(***************************************************************************)
(* Model of the metadata extraction command (datalad_metalad/extract.py):  *)
(* Extract.__call__, do_dataset_extraction, do_file_extraction, the two    *)
(* perform_*_metadata_extraction functions and the legacy extraction       *)
(* paths. The command is a generator like the dump: records holds the      *)
(* results it yields, log its messages, exc the exception it raises, pc    *)
(* its position and frame its local variables. path holds the arguments   *)
(* of the call, shapes the environment (dataset, registered extractor      *)
(* class, state of the file) and mem.events the calls made to the          *)
(* extractor and to the dataset, in order.                                 *)
(***************************************************************************)
MaxLegacyResults == 2   \* results a legacy extractor gives in one extraction

\* ------------------------------------------------ extractor classes
\* a class registered under the requested name; base is the class the
\* issubclass tests of extract.py find: DatasetMetadataExtractor and
\* FileMetadataExtractor (both MetadataExtractorBase), MetadataExtractor
\* (legacy, called as a function), BaseMetadataExtractor (legacy, with
\* get_metadata) or none of them
ExtractorClass(base, category, content, success, dict_type, results) ==
    [base |-> base,
     category |-> category,          \* get_data_output_category()
     content |-> content,            \* is_content_required() / NEEDS_CONTENT /
                                     \* presence of get_required_content
     success |-> success,            \* extraction_success of the result
     dict_type |-> dict_type,        \* "type" in the datalad_result_dict of the result
     results |-> results]            \* what a legacy extractor gives

ModernBases == {"DatasetMetadataExtractor", "FileMetadataExtractor"}
DataOutputCategory == {"IMMEDIATE", "FILE", "DIRECTORY"}

\* a result of a legacy function-style extractor
LegacyResult(status, has_message) == [status |-> status, has_message |-> has_message]

LegacyResults ==
    {LegacyResult("ok", FALSE), LegacyResult("error", TRUE), LegacyResult("error", FALSE)}

\* sequences of up to n elements of S
RECURSIVE SeqsUpTo(_, _)
SeqsUpTo(S, n) ==
    IF n = 0 THEN {<<>>}
    ELSE SeqsUpTo(S, n - 1) \cup {Append(q, x) : q \in SeqsUpTo(S, n - 1), x \in S}

ModernClasses ==
    {ExtractorClass(b, c, n, u, t, <<>>) :
        b \in ModernBases, c \in {"IMMEDIATE", "FILE"}, n \in BOOLEAN, u \in BOOLEAN,
        t \in {"dataset", "file"}}

FunctionClasses ==
    {ExtractorClass("MetadataExtractor", "IMMEDIATE", n, TRUE, None, r) :
        n \in BOOLEAN, r \in SeqsUpTo(LegacyResults, MaxLegacyResults)}

\* the results of a class-style extractor are the elements of its file result
ClassClasses ==
    {ExtractorClass("BaseMetadataExtractor", "IMMEDIATE", n, TRUE, None, r) :
        n \in BOOLEAN, r \in SeqsUpTo({LegacyResult("ok", FALSE)}, MaxLegacyResults)}

OtherClass == ExtractorClass("object", "IMMEDIATE", FALSE, TRUE, None, <<>>)

ExtractorClasses == ModernClasses \cup FunctionClasses \cup ClassClasses \cup {OtherClass}

IsModern(cls) == cls.base \in ModernBases

\* ------------------------------------------------ arguments, environment
\* the path argument: none, the "--" sentinel, a file, a directory
ExtractPaths == {None, "--", "f", "dir"}

ExtractArgs ==
    [kind : {"extract"},
     extractorname : {"metalad_x", "metalad_y"},
     path : ExtractPaths,
     dataset : {"/ds"},
     context_version : {None, "ctx"},      \* context.get("dataset_version")
     get_context : BOOLEAN]

\* dataset.status() of the file: tracked, untracked, or no status at all
FileStates == {"clean", "untracked", None}

Environments ==
    [dataset_found : BOOLEAN,              \* check_dataset finds a dataset
     registered : BOOLEAN,                 \* an entry point with that name exists
     class : ExtractorClasses,             \* what the entry point loads
     file_state : FileStates,
     get_status : {"ok", "error"}]         \* status of the content retrieval

DefaultClass ==
    ExtractorClass("DatasetMetadataExtractor", "IMMEDIATE", FALSE, TRUE, "dataset", <<>>)

\* variant: the "--" sentinel is kept as a path
NormPathKeep(args) == args.path

\* path = None if path == "--" else path
NormPath(args) == IF args.path = "--" THEN None ELSE args.path

\* get_path_info: the file tree path of the path argument
file_tree_path_of(p) == IF p = None THEN RootPath ELSE <<p>>

\* ensure_path_validity: the path is a directory of the dataset
IsDirectory(p) == p = "dir"

HeadVersion == "head"      \* source_dataset.repo.get_hexsha()
DatasetId == "U1"          \* source_dataset.id

ExInitFrame ==
    [resume |-> "done",
     path |-> None,
     source_dataset_version |-> None,
     has_ep |-> FALSE,
     ep |-> [source_dataset_id |-> None, source_dataset_version |-> None,
             local_source_object_path |-> <<>>, extractor_class |-> DefaultClass,
             extractor_name |-> None, extractor_arguments |-> None,
             file_tree_path |-> RootPath, agent_name |-> None, agent_email |-> None],
     results |-> <<>>,
     li |-> 1,
     message |-> None]

\* the environments that differ where the arguments can tell them apart
InitExtract ==
    /\ path \in ExtractArgs
    /\ shapes \in Environments
    /\ ~shapes.dataset_found \/ ~shapes.registered =>
          /\ shapes.class = DefaultClass
          /\ shapes.file_state = "clean"
          /\ shapes.get_status = "ok"
          /\ shapes.dataset_found \/ shapes.registered
    /\ tree_version_list = [present |-> FALSE, versions |-> VersionSeq]
    /\ uuid_set = [present |-> FALSE]
    /\ layout = {}
    /\ recursive = FALSE
    /\ purge_cascades = FALSE
    /\ mem = [mapped |-> [o \in Objects |-> FALSE], events |-> <<>>]
    /\ log = <<>>
    /\ records = <<>>
    /\ pc = "ex_call"
    /\ exc = None
    /\ parsed = FALSE
    /\ frame = ExInitFrame

\* what no step of the extraction assigns
ex_fixed == <<tree_version_list, uuid_set, layout, shapes, path, recursive,
              purge_cascades, parsed>>

\* a call made to the extractor, its class, or the dataset
Called(m, ops) == [m EXCEPT !.events = @ \o ops]

WasCalled(op) == InSeq(op, mem.events)

\* the generator yields result with the local variables f and continues at
\* resume when it is resumed
Yield(result, resume, f) ==
    /\ records' = Append(records, result)
    /\ pc' = "ex_yield"
    /\ frame' = [f EXCEPT !.resume = resume]

\* the generator raises the exception e with the message about
Raise(e, about) ==
    /\ exc' = e
    /\ pc' = "raised"
    /\ frame' = [frame EXCEPT !.message = about]

\* ------------------------------------------------------ Extract.__call__
\* variant: the current commit, whatever the context says
current_commit_of(args) == HeadVersion

\* extract.py 245-247: the version of the context, else the current commit
source_dataset_version_of(args) ==
    IF args.context_version # None THEN args.context_version ELSE HeadVersion

\* extract.py 265-280: the ExtractionParameter of the call
ExtractionParameter(args, env) ==
    [source_dataset_id |-> DatasetId,
     source_dataset_version |-> source_dataset_version_of(args),
     local_source_object_path |-> <<args.dataset>> \o file_tree_path_of(NormPath(args)),
     extractor_class |-> env.class,
     extractor_name |-> args.extractorname,
     extractor_arguments |-> "args",
     file_tree_path |-> file_tree_path_of(NormPath(args)),
     agent_name |-> "agent",
     agent_email |-> "agent@example.com"]

\* extract.py 234-246: check_dataset raises NoDatasetFound
ExNoDataset ==
    /\ pc = "ex_call"
    /\ ~shapes.dataset_found
    /\ Yield([status |-> "error",
              path |-> path.dataset,
              type |-> IF NormPath(path) = None THEN "dataset" ELSE "file",
              action |-> "meta_extract",
              message |-> "NoDatasetFound"],
             "done", [frame EXCEPT !.path = NormPath(path)])
    /\ UNCHANGED <<ex_fixed, mem, log, exc>>

\* extract.py 248-263: get_context: yield the dataset version and return
ExGetContext ==
    /\ pc = "ex_call"
    /\ shapes.dataset_found
    /\ path.get_context
    /\ Yield([status |-> "ok",
              action |-> "meta_extract",
              path |-> path.dataset,
              context |-> [dataset_version |-> source_dataset_version_of(path)]],
             "done",
             [frame EXCEPT !.path = NormPath(path),
                           !.source_dataset_version = source_dataset_version_of(path)])
    /\ UNCHANGED <<ex_fixed, mem, log, exc>>

\* extract.py 265, 455-466: no entry point has the requested name
ExUnknownExtractor ==
    /\ pc = "ex_call"
    /\ shapes.dataset_found
    /\ ~path.get_context
    /\ ~shapes.registered
    /\ mem' = Called(mem, <<"get_extractor_class">>)
    /\ Raise("ValueError", "extractor not available")
    /\ UNCHANGED <<ex_fixed, log, records>>

\* extract.py 265-296, 565-572: the path given is a directory
ExDirectory ==
    /\ pc = "ex_call"
    /\ shapes.dataset_found
    /\ ~path.get_context
    /\ shapes.registered
    /\ NormPath(path) # None
    /\ IsDirectory(NormPath(path))
    /\ mem' = Called(mem, <<"get_extractor_class">>)
    /\ Raise("ValueError", "FILE must not point to a directory")
    /\ UNCHANGED <<ex_fixed, log, records>>

\* extract.py 265-298: resolve the extractor, build the extraction parameter,
\* enter the file-level or the dataset-level extraction
ExDispatch ==
    /\ pc = "ex_call"
    /\ shapes.dataset_found
    /\ ~path.get_context
    /\ shapes.registered
    /\ NormPath(path) # None => ~IsDirectory(NormPath(path))
    /\ mem' = Called(mem, <<"get_extractor_class">>)
    /\ frame' = [frame EXCEPT
          !.path = NormPath(path),
          !.source_dataset_version = source_dataset_version_of(path),
          !.has_ep = TRUE,
          !.ep = ExtractionParameter(path, shapes)]
    /\ pc' = IF NormPath(path) # None THEN "do_file" ELSE "do_dataset"
    /\ UNCHANGED <<ex_fixed, log, records, exc>>

\* ------------------------------------------- modern extractors
\* issubclass(ep.extractor_class, DatasetMetadataExtractor)
IsDatasetLevel(cls) == cls.base = "DatasetMetadataExtractor"

\* variant: every modern extractor passes as a file-level extractor
IsFileLevelAny(cls) == IsModern(cls)

\* issubclass(ep.extractor_class, FileMetadataExtractor)
IsFileLevel(cls) == cls.base = "FileMetadataExtractor"

\* variant: only the DIRECTORY category is rejected
UnsupportedDirectory(output_category) == output_category = "DIRECTORY"

\* extract.py 402, 430: output_category != DataOutputCategory.IMMEDIATE
Unsupported(output_category) == output_category # "IMMEDIATE"

\* extract.py 411-422, 439-450: the metadata record of a modern extractor
ModernRecord(type, ep) ==
    (IF type = "file" THEN [path |-> ep.file_tree_path] ELSE [k \in {} |-> None])
    @@ [type |-> type,
        dataset_id |-> ep.source_dataset_id,
        dataset_version |-> ep.source_dataset_version,
        extractor_name |-> ep.extractor_name,
        extractor_version |-> "get_version",
        extraction_parameter |-> ep.extractor_arguments,
        extraction_time |-> "now",
        agent_name |-> ep.agent_name,
        agent_email |-> ep.agent_email,
        extracted_metadata |-> "immediate_data"]

\* variant: the record is added whether or not the extraction succeeded
ModernResultAlways(type, ep) ==
    [metadata_record |-> ModernRecord(type, ep),
     action |-> "meta_extract",
     path |-> ep.local_source_object_path,
     status |-> IF ep.extractor_class.success THEN "ok" ELSE "error",
     type |-> ep.extractor_class.dict_type]

\* extract.py 407-424, 435-452: the result of extract() as the generator
\* yields it: action and path are set, the record is added on success
ModernResult(type, ep) ==
    LET datalad_result_dict ==
            [status |-> IF ep.extractor_class.success THEN "ok" ELSE "error",
             type |-> ep.extractor_class.dict_type]
        result == [action |-> "meta_extract", path |-> ep.local_source_object_path]
                  @@ datalad_result_dict
    IN  IF ep.extractor_class.success
        THEN [metadata_record |-> ModernRecord(type, ep)] @@ result
        ELSE result

\* extract.py 334-342: not a MetadataExtractorBase: legacy extraction
DoDatasetLegacy ==
    /\ pc = "do_dataset"
    /\ ~IsModern(frame.ep.extractor_class)
    /\ log' = Logged("debug", "performing legacy dataset level metadata extraction",
                     frame.ep.extractor_name)
    /\ pc' = "legacy_dataset"
    /\ UNCHANGED <<ex_fixed, mem, records, exc, frame>>

\* extract.py 344-348: a modern extractor that is not dataset-level
DoDatasetMismatch ==
    /\ pc = "do_dataset"
    /\ IsModern(frame.ep.extractor_class)
    /\ ~IsDatasetLevel(frame.ep.extractor_class)
    /\ Raise("ValueError", "not a dataset-level extractor")
    /\ UNCHANGED <<ex_fixed, mem, log, records>>

\* extract.py 350-359: instantiate the extractor, enter the extraction
DoDatasetExtractor ==
    /\ pc = "do_dataset"
    /\ IsModern(frame.ep.extractor_class)
    /\ IsDatasetLevel(frame.ep.extractor_class)
    /\ log' = Logged("debug", "extracting dataset level metadata", frame.ep.extractor_name)
    /\ mem' = Called(mem, <<"instantiate">>)
    /\ pc' = "perform_dataset"
    /\ UNCHANGED <<ex_fixed, records, exc, frame>>

\* extract.py 429-433: the output category is not supported
PerformDatasetUnsupported ==
    /\ pc = "perform_dataset"
    /\ Unsupported(frame.ep.extractor_class.category)
    /\ mem' = Called(mem, <<"get_data_output_category">>)
    /\ Raise("NotImplementedError", "output category not supported")
    /\ UNCHANGED <<ex_fixed, log, records>>

\* extract.py 429-452: extract and yield the result
PerformDataset ==
    /\ pc = "perform_dataset"
    /\ ~Unsupported(frame.ep.extractor_class.category)
    /\ mem' = Called(mem, <<"get_data_output_category", "extract">>)
    /\ Yield(ModernResult("dataset", frame.ep), "done", frame)
    /\ UNCHANGED <<ex_fixed, log, exc>>

\* extract.py 364-373: not a MetadataExtractorBase: legacy extraction
DoFileLegacy ==
    /\ pc = "do_file"
    /\ ~IsModern(frame.ep.extractor_class)
    /\ log' = Logged("debug", "performing legacy file level metadata extraction",
                     frame.ep.extractor_name)
    /\ pc' = "legacy_file"
    /\ UNCHANGED <<ex_fixed, mem, records, exc, frame>>

\* extract.py 375-380: a modern extractor that is not file-level
DoFileMismatch ==
    /\ pc = "do_file"
    /\ IsModern(frame.ep.extractor_class)
    /\ ~IsFileLevel(frame.ep.extractor_class)
    /\ Raise("ValueError", "not a file-level extractor")
    /\ UNCHANGED <<ex_fixed, mem, log, records>>

\* extract.py 387, 488-512: get_file_info finds no status of the file
\* (FileNotFoundError) or an untracked file (ValueError)
DoFileInfoFails ==
    /\ pc = "do_file"
    /\ IsModern(frame.ep.extractor_class)
    /\ IsFileLevel(frame.ep.extractor_class)
    /\ shapes.file_state # "clean"
    /\ log' = Logged("debug", "performing file level extracting", frame.ep.extractor_name)
    /\ mem' = Called(mem, <<"status">>)
    /\ IF shapes.file_state = None
       THEN Raise("FileNotFoundError", "no dataset status")
       ELSE Raise("ValueError", "file not tracked")
    /\ UNCHANGED <<ex_fixed, records>>

\* variant: the content is never retrieved
ContentCallsNever(cls) == <<"is_content_required">>

\* extract.py 575-590: the calls and the message of ensure_content_availability
ContentCalls(cls) == IF cls.content THEN <<"is_content_required", "get">>
                     ELSE <<"is_content_required">>

ContentLogged(l, cls, env, about) ==
    IF ~cls.content THEN l
    ELSE IF env.get_status = "error"
         THEN Append(l, [level |-> "error", what |-> "cannot make content available",
                         about |-> about])
         ELSE Append(l, [level |-> "debug", what |-> "requested content available",
                         about |-> about])

\* extract.py 382-396: file info, instantiate the extractor, make the content
\* available if it is required, enter the extraction
DoFileExtractor ==
    /\ pc = "do_file"
    /\ IsModern(frame.ep.extractor_class)
    /\ IsFileLevel(frame.ep.extractor_class)
    /\ shapes.file_state = "clean"
    /\ mem' = Called(mem, <<"status", "instantiate">> \o ContentCalls(frame.ep.extractor_class))
    /\ log' = ContentLogged(Logged("debug", "performing file level extracting",
                                   frame.ep.extractor_name),
                            frame.ep.extractor_class, shapes, frame.ep.file_tree_path)
    /\ pc' = "perform_file"
    /\ UNCHANGED <<ex_fixed, records, exc, frame>>

\* extract.py 401-405: the output category is not supported
PerformFileUnsupported ==
    /\ pc = "perform_file"
    /\ Unsupported(frame.ep.extractor_class.category)
    /\ mem' = Called(mem, <<"get_data_output_category">>)
    /\ Raise("NotImplementedError", "output category not supported")
    /\ UNCHANGED <<ex_fixed, log, records>>

\* extract.py 401-424: extract and yield the result
PerformFile ==
    /\ pc = "perform_file"
    /\ ~Unsupported(frame.ep.extractor_class.category)
    /\ mem' = Called(mem, <<"get_data_output_category", "extract">>)
    /\ Yield(ModernResult("file", frame.ep), "done", frame)
    /\ UNCHANGED <<ex_fixed, log, exc>>

\* ------------------------------------------- legacy extractors
\* variant: the record names the class of the extractor, not the requested name
LegacyRecordOfClass(type, ep, extractor_version) ==
    (IF type = "file" THEN [path |-> ep.file_tree_path] ELSE [k \in {} |-> None])
    @@ [type |-> type,
        dataset_id |-> ep.source_dataset_id,
        dataset_version |-> ep.source_dataset_version,
        extractor_name |-> ep.extractor_class.base,
        extractor_version |-> extractor_version,
        extraction_parameter |-> ep.extractor_arguments,
        extraction_time |-> "now",
        agent_name |-> ep.agent_name,
        agent_email |-> ep.agent_email,
        extracted_metadata |-> "metadata"]

\* extract.py 650-664, 752-767, 787-805: the metadata record of a legacy result
LegacyRecord(type, ep, extractor_version) ==
    (IF type = "file" THEN [path |-> ep.file_tree_path] ELSE [k \in {} |-> None])
    @@ [type |-> type,
        dataset_id |-> ep.source_dataset_id,
        dataset_version |-> ep.source_dataset_version,
        extractor_name |-> ep.extractor_name,
        extractor_version |-> extractor_version,
        extraction_parameter |-> ep.extractor_arguments,
        extraction_time |-> "now",
        agent_name |-> ep.agent_name,
        agent_email |-> ep.agent_email,
        extracted_metadata |-> "metadata"]

\* extract.py 593-624: get_required_content is missing (AttributeError, passed
\* over) or names one element, which is retrieved
LegacyContentCalls(cls) ==
    IF cls.content THEN <<"get_required_content", "get">> ELSE <<>>

\* extract.py 629-640: function-style extractor on the dataset
LegacyDatasetFunction ==
    /\ pc = "legacy_dataset"
    /\ frame.ep.extractor_class.base = "MetadataExtractor"
    /\ mem' = Called(mem, <<"get_submodules", "instantiate">>
                          \o LegacyContentCalls(frame.ep.extractor_class) \o <<"call">>)
    /\ log' = ContentLogged(log, frame.ep.extractor_class, shapes, RootPath)
    /\ frame' = [frame EXCEPT !.results = frame.ep.extractor_class.results, !.li = 1]
    /\ pc' = "legacy_dataset_loop"
    /\ UNCHANGED <<ex_fixed, records, exc>>

\* extract.py 636-668: one result of the function-style extractor
LegacyDatasetResult ==
    /\ pc = "legacy_dataset_loop"
    /\ frame.li <= Len(frame.results)
    /\ LET result == frame.results[frame.li]
       IN  Yield((IF result.has_message THEN [message |-> "message"]
                  ELSE [k \in {} |-> None])
                 @@ (IF result.status = "ok"
                     THEN [metadata_record |->
                              LegacyRecord("dataset", frame.ep, "get_state")]
                     ELSE [k \in {} |-> None])
                 @@ [status |-> result.status,
                     action |-> "meta_extract",
                     path |-> <<path.dataset>>,
                     type |-> "dataset"],
                 "legacy_dataset_loop", [frame EXCEPT !.li = @ + 1])
    /\ UNCHANGED <<ex_fixed, mem, log, exc>>

\* extract.py 636: the results are exhausted
LegacyDatasetEnd ==
    /\ pc = "legacy_dataset_loop"
    /\ frame.li > Len(frame.results)
    /\ pc' = "done"
    /\ UNCHANGED <<ex_fixed, mem, log, records, exc, frame>>

\* extract.py 670-694: class-style extractor on the dataset
LegacyDatasetClass ==
    /\ pc = "legacy_dataset"
    /\ frame.ep.extractor_class.base = "BaseMetadataExtractor"
    /\ mem' = Called(mem, (IF frame.ep.extractor_class.content THEN <<"get">> ELSE <<>>)
                          \o <<"instantiate", "get_metadata">>)
    /\ log' = ContentLogged(log, frame.ep.extractor_class, shapes, RootPath)
    /\ Yield([action |-> "meta_extract",
              status |-> "ok",
              type |-> "dataset",
              metadata_record |-> LegacyRecord("dataset", frame.ep, "un-versioned")],
             "done", frame)
    /\ UNCHANGED <<ex_fixed, exc>>

\* extract.py 696-698: neither kind of legacy extractor
LegacyDatasetUnknown ==
    /\ pc = "legacy_dataset"
    /\ frame.ep.extractor_class.base \notin {"MetadataExtractor", "BaseMetadataExtractor"}
    /\ Raise("ValueError", "unknown extractor class")
    /\ UNCHANGED <<ex_fixed, mem, log, records>>

\* extract.py 734-747: function-style extractor on the file
LegacyFileFunction ==
    /\ pc = "legacy_file"
    /\ frame.ep.extractor_class.base = "MetadataExtractor"
    /\ mem' = Called(mem, <<"instantiate", "status">>
                          \o LegacyContentCalls(frame.ep.extractor_class) \o <<"call">>)
    /\ log' = ContentLogged(log, frame.ep.extractor_class, shapes, frame.ep.file_tree_path)
    /\ frame' = [frame EXCEPT !.results = frame.ep.extractor_class.results, !.li = 1]
    /\ pc' = "legacy_file_loop"
    /\ UNCHANGED <<ex_fixed, records, exc>>

\* extract.py 749-775: one result of the function-style extractor
LegacyFileResult ==
    /\ pc = "legacy_file_loop"
    /\ frame.li <= Len(frame.results)
    /\ LET result == frame.results[frame.li]
       IN  /\ result.status = "ok" \/ result.has_message
           /\ Yield((IF result.status = "ok"
                     THEN [metadata_record |->
                              LegacyRecord("file", frame.ep, "get_state")]
                     ELSE [message |-> "message"])
                    @@ [action |-> "meta_extract",
                        status |-> result.status,
                        type |-> "file",
                        path |-> frame.ep.local_source_object_path],
                    "legacy_file_loop", [frame EXCEPT !.li = @ + 1])
    /\ UNCHANGED <<ex_fixed, mem, log, exc>>

\* extract.py 769-775: result["message"] of a result without message
LegacyFileKeyError ==
    /\ pc = "legacy_file_loop"
    /\ frame.li <= Len(frame.results)
    /\ frame.results[frame.li].status # "ok"
    /\ ~frame.results[frame.li].has_message
    /\ Raise("KeyError", "message")
    /\ UNCHANGED <<ex_fixed, mem, log, records>>

\* extract.py 744: the results are exhausted
LegacyFileEnd ==
    /\ pc = "legacy_file_loop"
    /\ frame.li > Len(frame.results)
    /\ pc' = "done"
    /\ UNCHANGED <<ex_fixed, mem, log, records, exc, frame>>

\* variant: the content is retrieved whether or not the class needs it
LegacyFileClassAlwaysGet ==
    /\ pc = "legacy_file"
    /\ frame.ep.extractor_class.base = "BaseMetadataExtractor"
    /\ mem' = Called(mem, <<"get", "instantiate", "get_metadata">>)
    /\ log' = ContentLogged(log, frame.ep.extractor_class, shapes, frame.ep.file_tree_path)
    /\ frame' = [frame EXCEPT !.results = frame.ep.extractor_class.results, !.li = 1]
    /\ pc' = "legacy_class_loop"
    /\ UNCHANGED <<ex_fixed, records, exc>>

\* extract.py 777-785: class-style extractor on the file
LegacyFileClass ==
    /\ pc = "legacy_file"
    /\ frame.ep.extractor_class.base = "BaseMetadataExtractor"
    /\ mem' = Called(mem, (IF frame.ep.extractor_class.content THEN <<"get">> ELSE <<>>)
                          \o <<"instantiate", "get_metadata">>)
    /\ log' = ContentLogged(log, frame.ep.extractor_class, shapes, frame.ep.file_tree_path)
    /\ frame' = [frame EXCEPT !.results = frame.ep.extractor_class.results, !.li = 1]
    /\ pc' = "legacy_class_loop"
    /\ UNCHANGED <<ex_fixed, records, exc>>

\* extract.py 787-805: one element of the file result
LegacyClassFileRecord ==
    /\ pc = "legacy_class_loop"
    /\ frame.li <= Len(frame.results)
    /\ Yield([action |-> "meta_extract",
              status |-> "ok",
              type |-> "file",
              path |-> frame.ep.local_source_object_path,
              metadata_record |-> LegacyRecord("file", frame.ep, "un-versioned")],
             "legacy_class_loop", [frame EXCEPT !.li = @ + 1])
    /\ UNCHANGED <<ex_fixed, mem, log, exc>>

\* extract.py 787: the file result is exhausted
LegacyClassFileEnd ==
    /\ pc = "legacy_class_loop"
    /\ frame.li > Len(frame.results)
    /\ pc' = "done"
    /\ UNCHANGED <<ex_fixed, mem, log, records, exc, frame>>

\* extract.py 807-809: neither kind of legacy extractor
LegacyFileUnknown ==
    /\ pc = "legacy_file"
    /\ frame.ep.extractor_class.base \notin {"MetadataExtractor", "BaseMetadataExtractor"}
    /\ Raise("ValueError", "unknown extractor class")
    /\ UNCHANGED <<ex_fixed, mem, log, records>>

\* ------------------------------------------- the consumer of the results
\* next() on the generator suspended at a yield
ExNext ==
    /\ pc = "ex_yield"
    /\ pc' = frame.resume
    /\ UNCHANGED <<ex_fixed, mem, log, records, exc, frame>>

\* close() on the generator suspended at a yield
ExClose ==
    /\ pc = "ex_yield"
    /\ pc' = "closed"
    /\ UNCHANGED <<ex_fixed, mem, log, records, exc, frame>>

NextExtract ==
    \/ ExNoDataset \/ ExGetContext \/ ExUnknownExtractor \/ ExDirectory \/ ExDispatch
    \/ DoDatasetLegacy \/ DoDatasetMismatch \/ DoDatasetExtractor
    \/ PerformDatasetUnsupported \/ PerformDataset
    \/ DoFileLegacy \/ DoFileMismatch \/ DoFileInfoFails \/ DoFileExtractor
    \/ PerformFileUnsupported \/ PerformFile
    \/ LegacyDatasetFunction \/ LegacyDatasetResult \/ LegacyDatasetEnd
    \/ LegacyDatasetClass \/ LegacyDatasetUnknown
    \/ LegacyFileFunction \/ LegacyFileResult \/ LegacyFileKeyError \/ LegacyFileEnd
    \/ LegacyFileClass \/ LegacyClassFileRecord \/ LegacyClassFileEnd \/ LegacyFileUnknown
    \/ ExNext \/ ExClose

SpecExtract == InitExtract /\ [][NextExtract]_vars

\* ------------------------------------------- claims on the extraction
\* the class of the extraction parameter, once the parameter is built
ExtractorOfCall == frame.ep.extractor_class

\* a modern extractor with an output category other than IMMEDIATE
UnsupportedCase ==
    /\ frame.has_ep
    /\ ExtractorOfCall.base \in ModernBases
    /\ ExtractorOfCall.category # "IMMEDIATE"

\* C19: unsupported output category. With a modern extractor whose output
\* category is not IMMEDIATE, extract() is never called and no result is
\* yielded, and once the category has been asked the invocation has raised
\* NotImplementedError; NotImplementedError is raised in no other case.
UnsupportedCategoryRaises ==
    /\ UnsupportedCase =>
          /\ ~WasCalled("extract")
          /\ records = <<>>
          /\ pc \notin {"ex_yield", "done", "closed"}
          /\ WasCalled("get_data_output_category") =>
                pc = "raised" /\ exc = "NotImplementedError"
    /\ exc = "NotImplementedError" => UnsupportedCase

\* a file-level extraction raised NotImplementedError after the extractor was
\* instantiated and its content retrieved
UnsupportedCategoryWitness ==
    /\ UnsupportedCase
    /\ pc = "raised"
    /\ exc = "NotImplementedError"
    /\ frame.path # None
    /\ WasCalled("instantiate")
    /\ WasCalled("get")

\* a modern extractor of the wrong level for the extraction
MismatchCase ==
    /\ frame.has_ep
    /\ ExtractorOfCall.base \in ModernBases
    /\ \/ frame.path = None /\ ExtractorOfCall.base # "DatasetMetadataExtractor"
       \/ frame.path # None /\ ExtractorOfCall.base # "FileMetadataExtractor"

MismatchMessages == {"not a dataset-level extractor", "not a file-level extractor"}

LegacyPositions ==
    {"legacy_dataset", "legacy_dataset_loop", "legacy_file", "legacy_file_loop",
     "legacy_class_loop"}

\* C20: extractor level mismatch. A modern extractor of the wrong level makes
\* the extraction raise ValueError with no result yielded, no extractor
\* instantiated and no content retrieved; ValueError for a wrong level is
\* raised in no other case; an extractor that is not modern goes to the legacy
\* extraction, never to the modern one, and is never rejected for its level.
LevelMismatchRaises ==
    /\ MismatchCase =>
          /\ pc \in {"do_dataset", "do_file", "raised"}
          /\ pc = "raised" => exc = "ValueError" /\ frame.message \in MismatchMessages
          /\ records = <<>>
          /\ ~WasCalled("instantiate")
          /\ ~WasCalled("get")
          /\ ~WasCalled("extract")
    /\ (exc = "ValueError" /\ frame.message \in MismatchMessages) => MismatchCase
    /\ (frame.has_ep /\ ExtractorOfCall.base \notin ModernBases) =>
          /\ pc \notin {"perform_dataset", "perform_file"}
          /\ ~WasCalled("extract")
          /\ pc \notin {"do_dataset", "do_file"} =>
                /\ log # <<>>
                /\ log[1].what =
                      IF frame.path = None
                      THEN "performing legacy dataset level metadata extraction"
                      ELSE "performing legacy file level metadata extraction"

\* a file-level extraction was rejected for a dataset-level extractor that
\* requires content
LevelMismatchWitness ==
    /\ MismatchCase
    /\ pc = "raised"
    /\ frame.path # None
    /\ ExtractorOfCall.content

\* a file-level extraction in a dataset, with a path that is a directory
DirectoryCase ==
    /\ shapes.dataset_found
    /\ ~path.get_context
    /\ NormPath(path) # None
    /\ IsDirectory(NormPath(path))

\* C21: a path that is a directory is rejected first. In a file-level
\* extraction with a directory as path no extractor is ever resolved,
\* instantiated or invoked, no content is retrieved, no result is yielded, and
\* a call that has raised has raised ValueError.
DirectoryRejectedFirst ==
    DirectoryCase =>
        /\ ~WasCalled("get_extractor_class")
        /\ ~WasCalled("instantiate")
        /\ ~WasCalled("extract")
        /\ ~WasCalled("call")
        /\ ~WasCalled("get_metadata")
        /\ ~WasCalled("get")
        /\ records = <<>>
        /\ pc = "raised" => exc = "ValueError"

\* a legacy extractor called as a function
FunctionStyleCase ==
    /\ frame.has_ep
    /\ ExtractorOfCall.base = "MetadataExtractor"

\* C22: results of a function-style legacy extractor. In dataset mode and in
\* file mode the extraction raises nothing, its i-th result has the status of
\* the i-th result of the extractor and holds a metadata_record exactly when
\* that status is ok, and a finished extraction has yielded one result per
\* result of the extractor.
LegacyResultsPropagate ==
    FunctionStyleCase =>
        /\ exc = None
        /\ Len(records) <= Len(ExtractorOfCall.results)
        /\ \A i \in DOMAIN records :
              /\ records[i].status = ExtractorOfCall.results[i].status
              /\ "metadata_record" \in DOMAIN records[i] <=> records[i].status = "ok"
        /\ pc = "done" => Len(records) = Len(ExtractorOfCall.results)

\* a legacy extractor with get_metadata
ClassStyleCase ==
    /\ frame.has_ep
    /\ ExtractorOfCall.base = "BaseMetadataExtractor"

\* the positions of the calls of op among the calls made so far
CallsOf(op) == {i \in DOMAIN mem.events : mem.events[i] = op}

\* C23: class-style legacy extractor. Content is retrieved exactly when the
\* class needs content, and before get_metadata; get_metadata is called once,
\* before any result; every result has status ok and a record with
\* extractor_version "un-versioned"; a finished extraction has yielded one
\* result in dataset mode and one per element of the file result in file mode.
ClassStyleExtraction ==
    ClassStyleCase =>
        /\ exc = None
        /\ Cardinality(CallsOf("get_metadata")) <= 1
        /\ CallsOf("get") # {} => ExtractorOfCall.content
        /\ \A i \in CallsOf("get"), j \in CallsOf("get_metadata") : i < j
        /\ pc \notin {"do_dataset", "do_file", "legacy_dataset", "legacy_file"} =>
              /\ Cardinality(CallsOf("get_metadata")) = 1
              /\ ExtractorOfCall.content => CallsOf("get") # {}
        /\ records # <<>> => CallsOf("get_metadata") # {}
        /\ \A i \in DOMAIN records :
              /\ records[i].status = "ok"
              /\ records[i].metadata_record.extractor_version = "un-versioned"
              /\ records[i].type = (IF frame.path = None THEN "dataset" ELSE "file")
        /\ Len(records) <= (IF frame.path = None THEN 1 ELSE Len(ExtractorOfCall.results))
        /\ pc = "done" =>
              Len(records) = (IF frame.path = None THEN 1 ELSE Len(ExtractorOfCall.results))

\* a class-style extraction of a file finished with two results, after a
\* content retrieval that failed
ClassStyleExtractionWitness ==
    /\ ClassStyleCase
    /\ pc = "done"
    /\ frame.path # None
    /\ ExtractorOfCall.content
    /\ shapes.get_status = "error"
    /\ Len(records) = 2
    /\ Len(ExtractorOfCall.results) = 2

\* a modern file-level extractor on a tracked file
FileContentCase ==
    /\ frame.has_ep
    /\ frame.path # None
    /\ ExtractorOfCall.base = "FileMetadataExtractor"
    /\ shapes.file_state = "clean"

\* the messages of the given level about the content
ContentMessages(level) ==
    {i \in DOMAIN log : log[i].level = level /\ log[i].what = "cannot make content available"}

\* C24: soft-fail content availability. For a file-level extractor on a tracked
\* file: content is retrieved exactly when the extractor requires it, once, and
\* before extract(); a failed retrieval is logged as an error and raises
\* nothing (only an unsupported output category ends the call with an
\* exception); with the supported category extract() is called after the
\* retrieval, failed or not, before the result is yielded.
SoftFailContent ==
    FileContentCase =>
        /\ CallsOf("get") # {} => ExtractorOfCall.content
        /\ Cardinality(CallsOf("get")) <= 1
        /\ \A i \in CallsOf("get"), j \in CallsOf("extract") : i < j
        /\ pc # "do_file" =>
              /\ ExtractorOfCall.content => CallsOf("get") # {}
              /\ ContentMessages("error") # {} <=>
                    (ExtractorOfCall.content /\ shapes.get_status = "error")
        /\ exc # None =>
              exc = "NotImplementedError" /\ ExtractorOfCall.category # "IMMEDIATE"
        /\ (ExtractorOfCall.category = "IMMEDIATE" /\ pc \notin {"do_file", "perform_file"}) =>
              /\ CallsOf("extract") # {}
              /\ Len(records) = 1

\* an extraction finished with a result although the retrieval of the required
\* content failed
SoftFailContentWitness ==
    /\ FileContentCase
    /\ ExtractorOfCall.content
    /\ shapes.get_status = "error"
    /\ ContentMessages("error") # {}
    /\ CallsOf("extract") # {}
    /\ pc = "done"
    /\ Len(records) = 1

\* the context of a dataset is requested
GetContextCase ==
    /\ shapes.dataset_found
    /\ path.get_context

\* C25: get_context. In a dataset, a call with get_context makes no call to
\* resolve or invoke an extractor or to retrieve content, raises nothing and
\* builds no extraction parameter; once started it has yielded exactly one
\* result: status ok, no metadata_record, and as context the dataset_version
\* of the context argument if it has one, else the current commit.
GetContextOnly ==
    GetContextCase =>
        /\ mem.events = <<>>
        /\ exc = None
        /\ ~frame.has_ep
        /\ pc \in {"ex_call", "ex_yield", "done", "closed"}
        /\ pc = "ex_call" => records = <<>>
        /\ pc # "ex_call" =>
              /\ Len(records) = 1
              /\ records[1].status = "ok"
              /\ records[1].action = "meta_extract"
              /\ "metadata_record" \notin DOMAIN records[1]
              /\ records[1].context =
                    [dataset_version |->
                        IF path.context_version # None THEN path.context_version
                        ELSE HeadVersion]

\* a call with get_context, an extractor name that is not registered and a
\* directory as path finished with the version of the context argument
GetContextOnlyWitness ==
    /\ GetContextCase
    /\ pc = "done"
    /\ path.path = "dir"
    /\ path.context_version = "ctx"
    /\ ~shapes.registered
    /\ records[1].context.dataset_version = "ctx"

WithRecord == {i \in DOMAIN records : "metadata_record" \in DOMAIN records[i]}

\* C27: identity of the metadata records. Every metadata_record of a result
\* names the extractor that was requested and has the dataset id and the
\* dataset version of the extraction parameter: the id of the dataset, and
\* the version of the context argument or else the current commit.
RecordIdentity ==
    \A i \in WithRecord :
        /\ frame.has_ep
        /\ records[i].metadata_record.extractor_name = path.extractorname
        /\ records[i].metadata_record.dataset_id = frame.ep.source_dataset_id
        /\ records[i].metadata_record.dataset_version = frame.ep.source_dataset_version
        /\ frame.ep.source_dataset_id = DatasetId
        /\ frame.ep.source_dataset_version =
              (IF path.context_version # None THEN path.context_version ELSE HeadVersion)

\* a function-style extractor gave two records for the version of the context
RecordIdentityWitness ==
    /\ FunctionStyleCase
    /\ pc = "done"
    /\ Cardinality(WithRecord) = 2
    /\ path.extractorname = "metalad_y"
    /\ path.context_version = "ctx"
    /\ records[2].metadata_record.dataset_version = "ctx"

\* C28: type of the results. A call with a path yields no result of type
\* dataset, and a call without a path, or with "--" as path, yields no result
\* of type file.
ResultTypeOfLevel ==
    \A i \in DOMAIN records :
        "type" \in DOMAIN records[i] =>
            IF path.path \in {None, "--"}
            THEN records[i].type # "file"
            ELSE records[i].type # "dataset"

\* a modern extractor of the level of the call, with the supported category,
\* on a tracked file if it is file-level
ImmediateCase ==
    /\ frame.has_ep
    /\ ExtractorOfCall.category = "IMMEDIATE"
    /\ \/ frame.path = None /\ ExtractorOfCall.base = "DatasetMetadataExtractor"
       \/ /\ frame.path # None
          /\ ExtractorOfCall.base = "FileMetadataExtractor"
          /\ shapes.file_state = "clean"

\* C29: result of a modern extractor of category IMMEDIATE. The extraction
\* raises nothing and yields one result, after extract() was called; the
\* result has the action meta_extract and the absolute path of the source
\* object, and holds a metadata_record exactly when the extraction succeeded.
ImmediateResult ==
    ImmediateCase =>
        /\ exc = None
        /\ Len(records) <= 1
        /\ pc \in {"do_dataset", "do_file", "perform_dataset", "perform_file"} =>
              records = <<>>
        /\ pc \in {"ex_yield", "done", "closed"} =>
              /\ Len(records) = 1
              /\ Cardinality(CallsOf("extract")) = 1
        /\ \A i \in DOMAIN records :
              /\ records[i].action = "meta_extract"
              /\ records[i].path =
                    <<path.dataset>> \o (IF frame.path = None THEN <<>> ELSE <<frame.path>>)
              /\ i \in WithRecord <=> ExtractorOfCall.success

\* a dataset-level extraction that failed finished with a result without
\* record
ImmediateResultWitness ==
    /\ ImmediateCase
    /\ pc = "done"
    /\ frame.path = None
    /\ ~ExtractorOfCall.success
    /\ Len(records) = 1
    /\ WithRecord = {}

(***************************************************************************)
(* Model of the pipeline element (datalad_metalad/pipelineelement.py): an  *)
(* original PipelineElement and the element that copy() returns. A result  *)
(* list is a Python list, an object that several holders can share: mem is *)
(* the heap of the lists allocated so far, a list is named by its index in *)
(* mem, and an element's _result gives for each result type the list it    *)
(* holds, or NoList. frame holds the two elements. PipelineResult objects  *)
(* and dynamic data are changed by no method of the element and are values.*)
(***************************************************************************)
MaxLists == 2      \* lists allocated in one run
MaxListLen == 1    \* results in one list

ResultTypes == {"path"}
DynamicKeys == {"k"}
DynamicData == {"d1"}
PipelineResults == {"SUCCESS", "FAILURE"}            \* PipelineResult(state)
PipelineElementState == {"CONTINUE", "STOP"}
Elements == {"original", "copy"}
NoList == 0

\* PipelineElement(): no results, no dynamic data, state CONTINUE
PipelineElement ==
    [exists |-> TRUE,
     _result |-> [t \in ResultTypes |-> NoList],
     _dynamic |-> [k \in DynamicKeys |-> None],
     state |-> "CONTINUE"]

NoElement == [PipelineElement EXCEPT !.exists = FALSE]

InitPipeline ==
    /\ mem = <<>>
    /\ frame = [el |-> [e \in Elements |->
                          IF e = "original" THEN PipelineElement ELSE NoElement],
                last |-> None,         \* the element of the last call
                shared |-> FALSE]      \* a list of one element was given to the other
    /\ pc = "pipeline"
    /\ path = NonePath
    /\ shapes = OkShape
    /\ tree_version_list = [present |-> FALSE, versions |-> VersionSeq]
    /\ uuid_set = [present |-> FALSE]
    /\ layout = {}
    /\ recursive = FALSE
    /\ purge_cascades = FALSE
    /\ log = <<>>
    /\ records = <<>>
    /\ exc = None
    /\ parsed = FALSE

\* what no method of the element assigns
pe_fixed == <<pc, path, shapes, tree_version_list, uuid_set, layout, recursive,
              purge_cascades, log, records, exc, parsed>>

\* the lists an element holds
ListsOf(el) == {el._result[t] : t \in ResultTypes} \ {NoList}

\* the other element holds the list
HeldByOther(e, l) ==
    \E o \in Elements \ {e} : frame.el[o].exists /\ l \in ListsOf(frame.el[o])

\* the element e after a call that leaves it as el
Called_on(e, el, shared) ==
    [frame EXCEPT !.el[e] = el, !.last = e, !.shared = @ \/ shared]

\* element.state = state: a processing stage signals stop or continue
SetState(e, state) ==
    /\ frame.el[e].exists
    /\ frame' = Called_on(e, [frame.el[e] EXCEPT !.state = state], FALSE)
    /\ UNCHANGED <<pe_fixed, mem>>

\* self._dynamic[key] = data
set_dynamic_data(e, key, data) ==
    /\ frame.el[e].exists
    /\ frame' = Called_on(e, [frame.el[e] EXCEPT !._dynamic[key] = data], FALSE)
    /\ UNCHANGED <<pe_fixed, mem>>

\* add_result_list: a new list for a result type without one, then extend()
\* of the list in place
add_result_list(e, result_type, results) ==
    LET el == frame.el[e]
        missing == el._result[result_type] = NoList
        heap == IF missing THEN Append(mem, <<>>) ELSE mem
        l == IF missing THEN Len(heap) ELSE el._result[result_type]
    IN  /\ el.exists
        /\ missing => Len(mem) < MaxLists
        /\ Len(heap[l]) + Len(results) <= MaxListLen
        /\ mem' = [heap EXCEPT ![l] = @ \o results]
        /\ frame' = Called_on(e, [el EXCEPT !._result[result_type] = l], FALSE)
        /\ UNCHANGED pe_fixed

\* add_result: a new list for a result type without one, then append() of the
\* result to the list in place
add_result(e, result_type, result) ==
    LET el == frame.el[e]
        missing == el._result[result_type] = NoList
        heap == IF missing THEN Append(mem, <<>>) ELSE mem
        l == IF missing THEN Len(heap) ELSE el._result[result_type]
    IN  /\ el.exists
        /\ missing => Len(mem) < MaxLists
        /\ Len(heap[l]) < MaxListLen
        /\ mem' = [heap EXCEPT ![l] = Append(@, result)]
        /\ frame' = Called_on(e, [el EXCEPT !._result[result_type] = l], FALSE)
        /\ UNCHANGED pe_fixed

\* set_result with a list the caller has just built
set_result_new(e, result_type, result_list) ==
    /\ frame.el[e].exists
    /\ Len(mem) < MaxLists
    /\ mem' = Append(mem, result_list)
    /\ frame' = Called_on(e, [frame.el[e] EXCEPT !._result[result_type] = Len(mem) + 1],
                          FALSE)
    /\ UNCHANGED pe_fixed

\* set_result with a list that exists already: self._result[result_type] is
\* that list, not a copy of it
set_result(e, result_type, l) ==
    /\ frame.el[e].exists
    /\ l \in DOMAIN mem
    /\ frame' = Called_on(e, [frame.el[e] EXCEPT !._result[result_type] = l],
                          HeldByOther(e, l))
    /\ UNCHANGED <<pe_fixed, mem>>

\* variant: a new dictionary that holds the same lists
shallow_copy(heap, el) == [heap |-> heap, _result |-> el._result]

\* deepcopy(self._result): a new list with equal results for every list of
\* the dictionary; result types that hold one list hold one list in the copy
deepcopy(heap, el) ==
    LET held == ListsOf(el)
        rank(l) == Cardinality({j \in held : j <= l})
    IN  [heap |-> heap \o [n \in 1..Cardinality(held) |->
                              heap[CHOOSE l \in held : rank(l) = n]],
         _result |-> [t \in ResultTypes |->
                        IF el._result[t] = NoList THEN NoList
                        ELSE Len(heap) + rank(el._result[t])]]

\* copy(): a new element with deep copies of the dynamic data and of the
\* results; the element it replaces, if any, is dropped
copy ==
    LET el == frame.el["original"]
        copied == deepcopy(mem, el)
    IN  /\ el.exists
        /\ Len(copied.heap) <= MaxLists
        /\ mem' = copied.heap
        /\ frame' = [frame EXCEPT
              !.el["copy"] = [PipelineElement EXCEPT !._result = copied._result,
                                                     !._dynamic = el._dynamic],
              !.last = None,
              !.shared = FALSE]
        /\ UNCHANGED pe_fixed

\* the lists a caller passes
ResultLists == {q \in SeqsUpTo(PipelineResults, MaxListLen) : Len(q) <= 1}

NextPipeline ==
    \/ \E e \in Elements, state \in PipelineElementState : SetState(e, state)
    \/ \E e \in Elements, key \in DynamicKeys, data \in DynamicData :
          set_dynamic_data(e, key, data)
    \/ \E e \in Elements, t \in ResultTypes, result \in PipelineResults :
          add_result(e, t, result)
    \/ \E e \in Elements, t \in ResultTypes, results \in ResultLists :
          add_result_list(e, t, results)
    \/ \E e \in Elements, t \in ResultTypes, result_list \in ResultLists :
          set_result_new(e, t, result_list)
    \/ \E e \in Elements, t \in ResultTypes, l \in 1..MaxLists : set_result(e, t, l)
    \/ copy

SpecPipeline == InitPipeline /\ [][NextPipeline]_vars

\* ------------------------------------------- claims on the pipeline element
\* what get_result and get_dynamic_data give for the element
Content(e) ==
    [result |-> [t \in ResultTypes |->
                   IF frame.el[e]._result[t] = NoList
                   THEN [present |-> FALSE, results |-> <<>>]
                   ELSE [present |-> TRUE, results |-> mem[frame.el[e]._result[t]]]],
     dynamic |-> frame.el[e]._dynamic]

\* a step of copy(): the copy has the results and the dynamic data of the
\* original and the state CONTINUE, the original is as before
CopyStep ==
    frame'.last = None =>
        /\ Content("copy")' = Content("original")
        /\ frame'.el["copy"].state = "CONTINUE"
        /\ Content("original")' = Content("original")
        /\ frame'.el["original"].state = frame.el["original"].state

\* a call on the element e leaves the other element as it was
CallStep(e) ==
    frame'.last = e =>
        \A o \in Elements \ {e} :
            frame.el[o].exists =>
                /\ Content(o)' = Content(o)
                /\ frame'.el[o].state = frame.el[o].state

====
